---- MODULE Spec2Model ----
(***************************************************************************)
(* Rules engine of Tetris Enhanced (src/tetris_enhanced.py): shape         *)
(* catalog, 7-bag and next queue, board collision and line clearing,       *)
(* movement, rotation with kicks, hold, lock and scoring.                  *)
(***************************************************************************)
EXTENDS Integers, Sequences, FiniteSets, TLC

\* ------------------------------------------------------------------ bounds
\* operations applied after new_game in the engine specification
MaxSteps == 6
\* shuffle outcomes random.shuffle may return in the engine specification
NumShuffles == 3
\* shuffle outcomes random.shuffle may return in the bag specification
NumBagShuffles == 4
\* spawn requests after new_game in the bag specification
MaxSpawns == 16
\* score_lines calls after new_game in the scoring specification
MaxScoreCalls == 3
\* largest line count handed to score_lines
MaxLinesArg == 5
\* largest start level handed to new_game in the scoring specification
MaxStartLevel == 2
\* bottom rows of a drawn board that carry a row pattern, pose specification
StackRows == 2
\* bottom rows of a drawn board that carry a row pattern, line-clear specification
ClearRows == 3
\* calls made in a run that saves and loads
MaxSaveSteps == 3
\* engine calls made by the host loop in the host specification
MaxHostSteps == 3
\* shuffle outcomes random.shuffle may return in the host specification
NumHostShuffles == 1

\* ------------------------------------------------------- program constants
PLAY_COLS == 10
PLAY_ROWS == 20
QUEUE_MIN == 5
SPAWN_Y == 0 - 2

None == "None"
\* the value of responsive before its constructor has run
NoDesign == [constructed |-> FALSE]
KINDS == <<"I", "O", "T", "S", "Z", "J", "L">>
KindSet == {KINDS[i] : i \in 1..Len(KINDS)}

\* ------------------------------------------------------------ shape catalog
\* 4x4 footprints, rows top to bottom, "." is an empty cell
SHAPES(kind) ==
  CASE kind = "I" -> << <<".", ".", ".", ".">>,
                        <<"I", "I", "I", "I">>,
                        <<".", ".", ".", ".">>,
                        <<".", ".", ".", ".">> >>
    [] kind = "O" -> << <<".", ".", ".", ".">>,
                        <<".", "O", "O", ".">>,
                        <<".", "O", "O", ".">>,
                        <<".", ".", ".", ".">> >>
    [] kind = "T" -> << <<".", ".", ".", ".">>,
                        <<".", "T", "T", "T">>,
                        <<".", ".", "T", ".">>,
                        <<".", ".", ".", ".">> >>
    [] kind = "S" -> << <<".", ".", ".", ".">>,
                        <<".", ".", "S", "S">>,
                        <<".", "S", "S", ".">>,
                        <<".", ".", ".", ".">> >>
    [] kind = "Z" -> << <<".", ".", ".", ".">>,
                        <<".", "Z", "Z", ".">>,
                        <<".", ".", "Z", "Z">>,
                        <<".", ".", ".", ".">> >>
    [] kind = "J" -> << <<".", ".", ".", ".">>,
                        <<".", "J", "J", "J">>,
                        <<".", "J", ".", ".">>,
                        <<".", ".", ".", ".">> >>
    [] kind = "L" -> << <<".", ".", ".", ".">>,
                        <<".", "L", "L", "L">>,
                        <<".", "L", ".", ".">>,
                        <<".", ".", ".", ".">> >>

ROTATIONS(kind) ==
  CASE kind = "I" -> 2 [] kind = "O" -> 1 [] kind = "T" -> 4 [] kind = "S" -> 2
    [] kind = "Z" -> 2 [] kind = "J" -> 4 [] kind = "L" -> 4

\* kick candidates <<dx, dy>> per kick family and (from, to) rotation pair;
\* a pair without an entry has the zero offset only
KICKS(which, from_r, to_r) ==
  IF which = "JLTSZ" THEN
    CASE from_r = 0 /\ to_r = 1 -> << <<0, 0>>, <<-1, 0>>, <<-1, -1>>, <<0, 2>>, <<-1, 2>> >>
      [] from_r = 1 /\ to_r = 0 -> << <<0, 0>>, <<1, 0>>, <<1, 1>>, <<0, -2>>, <<1, -2>> >>
      [] from_r = 1 /\ to_r = 2 -> << <<0, 0>>, <<1, 0>>, <<1, -1>>, <<0, 2>>, <<1, 2>> >>
      [] from_r = 2 /\ to_r = 1 -> << <<0, 0>>, <<-1, 0>>, <<-1, 1>>, <<0, -2>>, <<-1, -2>> >>
      [] from_r = 2 /\ to_r = 3 -> << <<0, 0>>, <<1, 0>>, <<1, 1>>, <<0, -2>>, <<1, -2>> >>
      [] from_r = 3 /\ to_r = 2 -> << <<0, 0>>, <<-1, 0>>, <<-1, -1>>, <<0, 2>>, <<-1, 2>> >>
      [] from_r = 3 /\ to_r = 0 -> << <<0, 0>>, <<-1, 0>>, <<-1, 1>>, <<0, -2>>, <<-1, -2>> >>
      [] from_r = 0 /\ to_r = 3 -> << <<0, 0>>, <<1, 0>>, <<1, -1>>, <<0, 2>>, <<1, 2>> >>
      [] OTHER -> << <<0, 0>> >>
  ELSE
    CASE from_r = 0 /\ to_r = 1 -> << <<0, 0>>, <<-2, 0>>, <<1, 0>>, <<-2, -1>>, <<1, 2>> >>
      [] from_r = 1 /\ to_r = 0 -> << <<0, 0>>, <<2, 0>>, <<-1, 0>>, <<2, 1>>, <<-1, -2>> >>
      [] from_r = 1 /\ to_r = 2 -> << <<0, 0>>, <<-1, 0>>, <<2, 0>>, <<-1, 2>>, <<2, -1>> >>
      [] from_r = 2 /\ to_r = 1 -> << <<0, 0>>, <<1, 0>>, <<-2, 0>>, <<1, -2>>, <<-2, 1>> >>
      [] from_r = 2 /\ to_r = 3 -> << <<0, 0>>, <<2, 0>>, <<-1, 0>>, <<2, 1>>, <<-1, -2>> >>
      [] from_r = 3 /\ to_r = 2 -> << <<0, 0>>, <<-2, 0>>, <<1, 0>>, <<-2, -1>>, <<1, 2>> >>
      [] from_r = 3 /\ to_r = 0 -> << <<0, 0>>, <<1, 0>>, <<-2, 0>>, <<1, -2>>, <<-2, 1>> >>
      [] from_r = 0 /\ to_r = 3 -> << <<0, 0>>, <<-1, 0>>, <<2, 0>>, <<-1, 2>>, <<2, -1>> >>
      [] OTHER -> << <<0, 0>> >>

\* new[r][c] = grid[3 - c][r] with 0-based indices
\* rotate_shape turning the frame counter-clockwise
rotate_shape_ccw(g) == [r \in 1..4 |-> [c \in 1..4 |-> g[c][5 - r]]]

rotate_shape(g) == [r \in 1..4 |-> [c \in 1..4 |-> g[5 - c][r]]]

RECURSIVE unique_shapes(_, _, _)
unique_shapes(rots, k, acc) ==
  IF k > Len(rots) THEN acc
  ELSE IF \E i \in 1..Len(acc) : acc[i] = rots[k]
       THEN unique_shapes(rots, k + 1, acc)
       ELSE unique_shapes(rots, k + 1, Append(acc, rots[k]))

build_rotations(kind) ==
  LET r0 == SHAPES(kind)
      r1 == rotate_shape(r0)
      r2 == rotate_shape(r1)
      r3 == rotate_shape(r2)
      unique == unique_shapes(<<r0, r1, r2, r3>>, 1, <<>>)
      count == ROTATIONS(kind)
  IN SubSeq(unique, 1, IF count < Len(unique) THEN count ELSE Len(unique))

ROTATED == [k \in KindSet |-> build_rotations(k)]

\* ------------------------------------------------------------------- Piece
Piece(kind, x, y, r) == [kind |-> kind, x |-> x, y |-> y, r |-> r]
NoPiece == [kind |-> None, x |-> 0, y |-> 0, r |-> 0]

piece_grid(p) == ROTATED[p.kind][(p.r % Len(ROTATED[p.kind])) + 1]

\* the 16 frame positions <<i, j>> in the order of the nested loops (j outer)
FramePositions == [k \in 1..16 |-> <<(k - 1) % 4, (k - 1) \div 4>>]

cells(p) ==
  LET g == piece_grid(p)
      occ == SelectSeq(FramePositions, LAMBDA ij : g[ij[2] + 1][ij[1] + 1] # ".")
  IN [k \in 1..Len(occ) |-> <<p.x + occ[k][1], p.y + occ[k][2]>>]

\* --------------------------------------------------------------- GameState
EmptyRow == [c \in 1..PLAY_COLS |-> None]
EmptyGrid == [r \in 1..PLAY_ROWS |-> EmptyRow]

\* gravity_for_level in microseconds: max(0.05, 0.8 * 0.9 ** (level - 1)),
\* each factor 0.9 truncated to a whole microsecond
RECURSIVE gravity_raw(_)
gravity_raw(level) == IF level <= 1 THEN 800000 ELSE (gravity_raw(level - 1) * 9) \div 10

gravity_for_level(level) ==
  IF gravity_raw(level) < 50000 THEN 50000 ELSE gravity_raw(level)

GameState ==
  [grid |-> EmptyGrid, bag |-> <<>>, next_queue |-> <<>>, hold |-> None,
   can_hold |-> TRUE, current |-> NoPiece, score |-> 0, lines |-> 0, level |-> 1,
   combo |-> 0 - 1, back_to_back |-> FALSE, game_over |-> FALSE,
   fall_interval |-> 1000000,
   hard_drop_anim |-> FALSE, hard_drop_target_y |-> 0,
   drawn |-> <<>>]

\* spawn_x that starts the I piece one column further right
spawn_x_shifted(kind) == IF kind # "I" THEN 3 ELSE 4

spawn_x(kind) == IF kind # "I" THEN 3 ELSE 3

\* collides_from with the board test skipping row 0 (y > 0 for y >= 0)
RECURSIVE collides_from_skip_row0(_, _, _)
collides_from_skip_row0(g, cs, k) ==
  IF k > Len(cs) THEN FALSE
  ELSE LET x == cs[k][1]
           y == cs[k][2]
       IN IF x < 0 \/ x >= PLAY_COLS \/ y >= PLAY_ROWS THEN TRUE
          ELSE IF y > 0 /\ g[y + 1][x + 1] # None THEN TRUE
          ELSE collides_from_skip_row0(g, cs, k + 1)

\* grid[y][x] of the source is s.grid[y + 1][x + 1]
RECURSIVE collides_from(_, _, _)
collides_from(g, cs, k) ==
  IF k > Len(cs) THEN FALSE
  ELSE LET x == cs[k][1]
           y == cs[k][2]
       IN IF x < 0 \/ x >= PLAY_COLS \/ y >= PLAY_ROWS THEN TRUE
          ELSE IF y >= 0 /\ g[y + 1][x + 1] # None THEN TRUE
          ELSE collides_from(g, cs, k + 1)

collides(s, piece) == collides_from(s.grid, cells(piece), 1)


\* ------------------------------------------------------------- board rules
RECURSIVE prepend_empty(_)
prepend_empty(g) == IF Len(g) < PLAY_ROWS THEN prepend_empty(<<EmptyRow>> \o g) ELSE g

\* clear_lines that adds the empty rows below the kept rows
clear_lines_append(s) ==
  LET new_grid == SelectSeq(s.grid, LAMBDA row : \E c \in 1..Len(row) : row[c] = None)
      cleared == PLAY_ROWS - Len(new_grid)
  IN [s |-> [s EXCEPT !.grid = new_grid \o [i \in 1..cleared |-> EmptyRow]],
      ret |-> cleared]

\* returns the state with the new grid and the number of cleared rows
clear_lines(s) ==
  LET new_grid == SelectSeq(s.grid, LAMBDA row : \E c \in 1..Len(row) : row[c] = None)
      cleared == PLAY_ROWS - Len(new_grid)
  IN [s |-> [s EXCEPT !.grid = prepend_empty(new_grid)], ret |-> cleared]

\* ------------------------------------------------------------ bag and queue
RECURSIVE rotate_left(_, _)
rotate_left(q, n) == IF n = 0 THEN q ELSE rotate_left(Append(Tail(q), Head(q)), n - 1)

reverse(q) == [i \in 1..Len(q) |-> q[Len(q) + 1 - i]]

\* the n-th permutation random.shuffle may leave in list(SHAPES.keys())
shuffle_outcome(n) ==
  IF n % 3 = 2 THEN rotate_left(reverse(KINDS), n % Len(KINDS))
  ELSE rotate_left(KINDS, (2 * n) % Len(KINDS))

Shuffles(count) == {shuffle_outcome(n) : n \in 0..(count - 1)}

\* refill_bag losing the last kind of the shuffled list
refill_bag_short(s, perm) == [s EXCEPT !.bag = @ \o SubSeq(perm, 1, Len(perm) - 1)]

\* refill_bag that appends the shuffled kinds twice
refill_bag_twice(s, perm) == [s EXCEPT !.bag = @ \o perm \o perm]

\* perm is what random.shuffle made of the 7 kinds
refill_bag(s, perm) == [s EXCEPT !.bag = @ \o perm]

\* the while loop of spawn_next; drawn records every kind moved bag -> queue
RECURSIVE fill_queue(_, _)
fill_queue(s, perm) ==
  IF Len(s.next_queue) < QUEUE_MIN
  THEN LET s1 == IF s.bag = <<>> THEN refill_bag(s, perm) ELSE s
           k == Head(s1.bag)
       IN fill_queue([s1 EXCEPT !.next_queue = Append(@, k),
                                !.bag = Tail(@),
                                !.drawn = Append(@, k)], perm)
  ELSE s

\* spawn_next that installs the piece without the collision test
spawn_next_unchecked(s, perm) ==
  LET s1 == fill_queue(s, perm)
      kind == Head(s1.next_queue)
  IN [s1 EXCEPT !.next_queue = Tail(@), !.current = Piece(kind, spawn_x(kind), SPAWN_Y, 0)]

\* spawn_next that sets game_over to the outcome of the collision test
spawn_next_recheck(s, perm) ==
  LET s1 == fill_queue(s, perm)
      kind == Head(s1.next_queue)
      s2 == [s1 EXCEPT !.next_queue = Tail(@)]
      piece == Piece(kind, spawn_x(kind), SPAWN_Y, 0)
  IN [s2 EXCEPT !.game_over = collides(s2, piece), !.current = piece]

spawn_next(s, perm) ==
  LET s1 == fill_queue(s, perm)
      kind == Head(s1.next_queue)
      s2 == [s1 EXCEPT !.next_queue = Tail(@)]
      piece == Piece(kind, spawn_x(kind), SPAWN_Y, 0)
      s3 == IF collides(s2, piece) THEN [s2 EXCEPT !.game_over = TRUE] ELSE s2
  IN [s3 EXCEPT !.current = piece]

\* new_game that ignores the start level
new_game_default_level(start_level, perm) ==
  spawn_next(refill_bag(GameState, perm), perm)

new_game(start_level, perm) ==
  LET s0 == [GameState EXCEPT !.level = start_level,
                              !.fall_interval = gravity_for_level(start_level)]
  IN spawn_next(refill_bag(s0, perm), perm)

\* ------------------------------------------------------------------- lock
\* lock_cells visiting the cells from the last to the first
RECURSIVE lock_cells_bottom_up(_, _, _)
lock_cells_bottom_up(s, cs, k) ==
  IF k > Len(cs) THEN [s |-> s, aborted |-> FALSE, raised |-> FALSE]
  ELSE LET x == cs[Len(cs) + 1 - k][1]
           y == cs[Len(cs) + 1 - k][2]
       IN IF y < 0
          THEN [s |-> [s EXCEPT !.game_over = TRUE], aborted |-> TRUE, raised |-> FALSE]
          ELSE IF y >= PLAY_ROWS THEN [s |-> s, aborted |-> FALSE, raised |-> TRUE]
          ELSE lock_cells_bottom_up([s EXCEPT !.grid[y + 1][x + 1] = s.current.kind],
                                    cs, k + 1)

\* the for loop of lock_piece over the cells from index k on: a cell above the
\* board sets game_over and returns, a cell below the last row raises
\* IndexError at the write (raised), any other cell is written
RECURSIVE lock_cells(_, _, _)
lock_cells(s, cs, k) ==
  IF k > Len(cs) THEN [s |-> s, aborted |-> FALSE, raised |-> FALSE]
  ELSE LET x == cs[k][1]
           y == cs[k][2]
           \* a negative list index counts from the end of the row
           col == IF x < 0 THEN PLAY_COLS + x ELSE x
       IN IF y < 0
          THEN [s |-> [s EXCEPT !.game_over = TRUE], aborted |-> TRUE, raised |-> FALSE]
          ELSE IF y >= PLAY_ROWS \/ col < 0 \/ col >= PLAY_COLS
          THEN [s |-> s, aborted |-> FALSE, raised |-> TRUE]
          ELSE lock_cells([s EXCEPT !.grid[y + 1][col + 1] = s.current.kind], cs, k + 1)

\* lock_piece that does not give the hold back
lock_piece_keep_hold(s, perm) ==
  IF s.current = NoPiece THEN [s |-> s, ret |-> 0, raised |-> FALSE]
  ELSE LET l == lock_cells(s, cells(s.current), 1)
       IN IF l.aborted \/ l.raised THEN [s |-> l.s, ret |-> 0, raised |-> l.raised]
          ELSE LET c == clear_lines(l.s)
                   s1 == [c.s EXCEPT !.current = NoPiece]
               IN [s |-> spawn_next(s1, perm), ret |-> c.ret, raised |-> FALSE]

\* lock_piece that leaves completed rows on the board
lock_piece_no_clear(s, perm) ==
  IF s.current = NoPiece THEN [s |-> s, ret |-> 0, raised |-> FALSE]
  ELSE LET l == lock_cells(s, cells(s.current), 1)
       IN IF l.aborted \/ l.raised THEN [s |-> l.s, ret |-> 0, raised |-> l.raised]
          ELSE LET s1 == [l.s EXCEPT !.can_hold = TRUE, !.current = NoPiece]
               IN [s |-> spawn_next(s1, perm), ret |-> 0, raised |-> FALSE]

lock_piece(s, perm) ==
  IF s.current = NoPiece THEN [s |-> s, ret |-> 0, raised |-> FALSE]
  ELSE LET l == lock_cells(s, cells(s.current), 1)
       IN IF l.aborted \/ l.raised THEN [s |-> l.s, ret |-> 0, raised |-> l.raised]
          ELSE LET c == clear_lines(l.s)
                   s1 == [c.s EXCEPT !.can_hold = TRUE, !.current = NoPiece]
               IN [s |-> spawn_next(s1, perm), ret |-> c.ret, raised |-> FALSE]

\* ------------------------------------------------------------------ T-spin
RECURSIVE count_corners(_, _, _)
count_corners(s, corners, k) ==
  IF k > Len(corners) THEN 0
  ELSE LET cx == corners[k][1]
           cy == corners[k][2]
           hit == IF cy < 0 \/ cx < 0 \/ cx >= PLAY_COLS \/ cy >= PLAY_ROWS THEN 1
                  ELSE IF s.grid[cy + 1][cx + 1] # None THEN 1 ELSE 0
       IN hit + count_corners(s, corners, k + 1)

is_t_spin(s, piece, kicked) ==
  IF piece.kind # "T" THEN "none"
  ELSE LET corners == << <<piece.x, piece.y>>, <<piece.x + 2, piece.y>>,
                         <<piece.x, piece.y + 2>>, <<piece.x + 2, piece.y + 2>> >>
       IN IF count_corners(s, corners, 1) >= 3 THEN "tspin" ELSE "none"

\* ----------------------------------------------------------------- scoring
\* int(pts * 1.5) for a non-negative integer pts
int_times_1_5(pts) == (pts * 3) \div 2

\* score_lines whose non-T-spin table gives 800 for exactly 4 lines only
score_lines_exact4(s, n, tspin) ==
  LET pts0 == IF tspin # "none"
              THEN (IF n = 1 THEN 400 ELSE IF n = 2 THEN 700 ELSE 100)
              ELSE (IF n = 1 THEN 100 ELSE IF n = 2 THEN 300 ELSE IF n = 3 THEN 500
                    ELSE IF n = 4 THEN 800 ELSE 0)
      b2b_candidate == IF tspin # "none" THEN TRUE ELSE n >= 4
  IN IF n > 0
     THEN LET combo1 == s.combo + 1
              pts1 == IF combo1 > 0 THEN pts0 + 50 * combo1 ELSE pts0
              pts2 == IF b2b_candidate /\ s.back_to_back THEN int_times_1_5(pts1) ELSE pts1
              lines1 == s.lines + n
              up == (lines1 \div 10) + 1 > s.level
          IN [s EXCEPT !.combo = combo1,
                       !.back_to_back = b2b_candidate,
                       !.lines = lines1,
                       !.level = IF up THEN (lines1 \div 10) + 1 ELSE @,
                       !.fall_interval = IF up THEN gravity_for_level((lines1 \div 10) + 1) ELSE @,
                       !.score = @ + pts2]
     ELSE [s EXCEPT !.combo = 0 - 1, !.back_to_back = FALSE, !.score = @ + pts0]

\* score_lines whose back-to-back factor ignores the flag left by the last clear
score_lines_always_b2b(s, n, tspin) ==
  LET pts0 == IF tspin # "none"
              THEN (IF n = 1 THEN 400 ELSE IF n = 2 THEN 700 ELSE 100)
              ELSE (IF n = 1 THEN 100 ELSE IF n = 2 THEN 300 ELSE IF n = 3 THEN 500
                    ELSE IF n >= 4 THEN 800 ELSE 0)
      b2b_candidate == IF tspin # "none" THEN TRUE ELSE n >= 4
  IN IF n > 0
     THEN LET combo1 == s.combo + 1
              pts1 == IF combo1 > 0 THEN pts0 + 50 * combo1 ELSE pts0
              pts2 == IF b2b_candidate THEN int_times_1_5(pts1) ELSE pts1
              lines1 == s.lines + n
              up == (lines1 \div 10) + 1 > s.level
          IN [s EXCEPT !.combo = combo1,
                       !.back_to_back = b2b_candidate,
                       !.lines = lines1,
                       !.level = IF up THEN (lines1 \div 10) + 1 ELSE @,
                       !.fall_interval = IF up THEN gravity_for_level((lines1 \div 10) + 1) ELSE @,
                       !.score = @ + pts2]
     ELSE [s EXCEPT !.combo = 0 - 1, !.back_to_back = FALSE, !.score = @ + pts0]

\* score_lines whose combo bonus uses the combo counter before the increment
score_lines_stale_combo(s, n, tspin) ==
  LET pts0 == IF tspin # "none"
              THEN (IF n = 1 THEN 400 ELSE IF n = 2 THEN 700 ELSE 100)
              ELSE (IF n = 1 THEN 100 ELSE IF n = 2 THEN 300 ELSE IF n = 3 THEN 500
                    ELSE IF n >= 4 THEN 800 ELSE 0)
      b2b_candidate == IF tspin # "none" THEN TRUE ELSE n >= 4
  IN IF n > 0
     THEN LET combo1 == s.combo + 1
              pts1 == IF s.combo > 0 THEN pts0 + 50 * s.combo ELSE pts0
              pts2 == IF b2b_candidate /\ s.back_to_back THEN int_times_1_5(pts1) ELSE pts1
              lines1 == s.lines + n
              up == (lines1 \div 10) + 1 > s.level
          IN [s EXCEPT !.combo = combo1,
                       !.back_to_back = b2b_candidate,
                       !.lines = lines1,
                       !.level = IF up THEN (lines1 \div 10) + 1 ELSE @,
                       !.fall_interval = IF up THEN gravity_for_level((lines1 \div 10) + 1) ELSE @,
                       !.score = @ + pts2]
     ELSE [s EXCEPT !.combo = 0 - 1, !.back_to_back = FALSE, !.score = @ + pts0]

\* score_lines that recomputes the level from the line total without comparing
\* it with the current level
score_lines_level_reset(s, n, tspin) ==
  LET pts0 == IF tspin # "none"
              THEN (IF n = 1 THEN 400 ELSE IF n = 2 THEN 700 ELSE 100)
              ELSE (IF n = 1 THEN 100 ELSE IF n = 2 THEN 300 ELSE IF n = 3 THEN 500
                    ELSE IF n >= 4 THEN 800 ELSE 0)
      b2b_candidate == IF tspin # "none" THEN TRUE ELSE n >= 4
  IN IF n > 0
     THEN LET combo1 == s.combo + 1
              pts1 == IF combo1 > 0 THEN pts0 + 50 * combo1 ELSE pts0
              pts2 == IF b2b_candidate /\ s.back_to_back THEN int_times_1_5(pts1) ELSE pts1
              lines1 == s.lines + n
          IN [s EXCEPT !.combo = combo1,
                       !.back_to_back = b2b_candidate,
                       !.lines = lines1,
                       !.level = (lines1 \div 10) + 1,
                       !.fall_interval = gravity_for_level((lines1 \div 10) + 1),
                       !.score = @ + pts2]
     ELSE [s EXCEPT !.combo = 0 - 1, !.back_to_back = FALSE, !.score = @ + pts0]

score_lines(s, n, tspin) ==
  LET pts0 == IF tspin # "none"
              THEN (IF n = 1 THEN 400 ELSE IF n = 2 THEN 700 ELSE 100)
              ELSE (IF n = 1 THEN 100 ELSE IF n = 2 THEN 300 ELSE IF n = 3 THEN 500
                    ELSE IF n >= 4 THEN 800 ELSE 0)
      b2b_candidate == IF tspin # "none" THEN TRUE ELSE n >= 4
  IN IF n > 0
     THEN LET combo1 == s.combo + 1
              pts1 == IF combo1 > 0 THEN pts0 + 50 * combo1 ELSE pts0
              pts2 == IF b2b_candidate /\ s.back_to_back THEN int_times_1_5(pts1) ELSE pts1
              lines1 == s.lines + n
              up == (lines1 \div 10) + 1 > s.level
          IN [s EXCEPT !.combo = combo1,
                       !.back_to_back = b2b_candidate,
                       !.lines = lines1,
                       !.level = IF up THEN (lines1 \div 10) + 1 ELSE @,
                       !.fall_interval = IF up THEN gravity_for_level((lines1 \div 10) + 1) ELSE @,
                       !.score = @ + pts2]
     ELSE [s EXCEPT !.combo = 0 - 1, !.back_to_back = FALSE, !.score = @ + pts0]

\* ------------------------------------------------------ movement, rotation
\* try_move that installs the translated piece without the collision test
try_move_unchecked(s, dx, dy) ==
  IF s.current = NoPiece THEN [s |-> s, ret |-> FALSE]
  ELSE [s |-> [s EXCEPT !.current = Piece(s.current.kind, s.current.x + dx,
                                          s.current.y + dy, s.current.r)],
        ret |-> TRUE]

\* try_move that pays one point per row moved down
try_move_paid(s, dx, dy) ==
  IF s.current = NoPiece THEN [s |-> s, ret |-> FALSE]
  ELSE LET p == Piece(s.current.kind, s.current.x + dx, s.current.y + dy, s.current.r)
       IN IF ~collides(s, p)
          THEN [s |-> [s EXCEPT !.current = p, !.score = @ + dy], ret |-> TRUE]
          ELSE [s |-> s, ret |-> FALSE]

try_move(s, dx, dy) ==
  IF s.current = NoPiece THEN [s |-> s, ret |-> FALSE]
  ELSE LET p == Piece(s.current.kind, s.current.x + dx, s.current.y + dy, s.current.r)
       IN IF ~collides(s, p) THEN [s |-> [s EXCEPT !.current = p], ret |-> TRUE]
          ELSE [s |-> s, ret |-> FALSE]

\* try_kicks visiting the candidates from the last to the first
RECURSIVE try_kicks_from_last(_, _, _, _)
try_kicks_from_last(s, kicks, to_r, k) ==
  IF k > Len(kicks) THEN [s |-> s, ok |-> FALSE, tspin |-> "none", kick |-> 0]
  ELSE LET cur == s.current
           dx == kicks[Len(kicks) + 1 - k][1]
           dy == kicks[Len(kicks) + 1 - k][2]
           cand == Piece(cur.kind, cur.x + dx, cur.y + dy, to_r)
       IN IF ~collides(s, cand)
          THEN LET s1 == [s EXCEPT !.current = cand]
               IN [s |-> s1, ok |-> TRUE,
                   tspin |-> is_t_spin(s1, cand, dx # 0 \/ dy # 0),
                   kick |-> Len(kicks) + 1 - k]
          ELSE try_kicks_from_last(s, kicks, to_r, k + 1)

\* try_kicks that keeps the target rotation when every candidate collides
RECURSIVE try_kicks_keep_rotation(_, _, _, _)
try_kicks_keep_rotation(s, kicks, to_r, k) ==
  IF k > Len(kicks)
  THEN [s |-> [s EXCEPT !.current.r = to_r], ok |-> FALSE, tspin |-> "none", kick |-> 0]
  ELSE LET cur == s.current
           dx == kicks[k][1]
           dy == kicks[k][2]
           cand == Piece(cur.kind, cur.x + dx, cur.y + dy, to_r)
       IN IF ~collides(s, cand)
          THEN LET s1 == [s EXCEPT !.current = cand]
               IN [s |-> s1, ok |-> TRUE,
                   tspin |-> is_t_spin(s1, cand, dx # 0 \/ dy # 0), kick |-> k]
          ELSE try_kicks_keep_rotation(s, kicks, to_r, k + 1)

\* the for loop of try_rotate over the kick candidates from index k on;
\* kick is the index of the candidate taken, 0 when none fits
RECURSIVE try_kicks(_, _, _, _)
try_kicks(s, kicks, to_r, k) ==
  IF k > Len(kicks) THEN [s |-> s, ok |-> FALSE, tspin |-> "none", kick |-> 0]
  ELSE LET cur == s.current
           dx == kicks[k][1]
           dy == kicks[k][2]
           cand == Piece(cur.kind, cur.x + dx, cur.y + dy, to_r)
       IN IF ~collides(s, cand)
          THEN LET s1 == [s EXCEPT !.current = cand]
               IN [s |-> s1, ok |-> TRUE,
                   tspin |-> is_t_spin(s1, cand, dx # 0 \/ dy # 0), kick |-> k]
          ELSE try_kicks(s, kicks, to_r, k + 1)

try_rotate(s, dr) ==
  LET cur == s.current
  IN IF cur = NoPiece THEN [s |-> s, ok |-> FALSE, tspin |-> "none", kick |-> 0]
     ELSE LET from_r == cur.r % Len(ROTATED[cur.kind])
              to_r == (cur.r + dr) % Len(ROTATED[cur.kind])
              which == IF cur.kind = "I" THEN "I" ELSE "JLTSZ"
          IN try_kicks(s, KICKS(which, from_r, to_r), to_r, 1)

\* ------------------------------------------------------------------- hold
\* hold_swap that leaves can_hold as it was
hold_swap_reusable(s, perm) ==
  IF s.current = NoPiece \/ ~s.can_hold THEN s
  ELSE LET cur_kind == s.current.kind
       IN IF s.hold = None
          THEN spawn_next([s EXCEPT !.hold = cur_kind], perm)
          ELSE LET p == Piece(s.hold, spawn_x(s.hold), SPAWN_Y, 0)
                   s2 == [s EXCEPT !.current = p, !.hold = cur_kind]
               IN IF collides(s2, p) THEN [s2 EXCEPT !.game_over = TRUE] ELSE s2

\* hold_swap that keeps the held kind in the slot when it swaps
hold_swap_keep_slot(s, perm) ==
  IF s.current = NoPiece \/ ~s.can_hold THEN s
  ELSE LET cur_kind == s.current.kind
           s1 == IF s.hold = None
                 THEN spawn_next([s EXCEPT !.hold = cur_kind], perm)
                 ELSE LET p == Piece(s.hold, spawn_x(s.hold), SPAWN_Y, 0)
                          s2 == [s EXCEPT !.current = p]
                      IN IF collides(s2, p) THEN [s2 EXCEPT !.game_over = TRUE] ELSE s2
       IN [s1 EXCEPT !.can_hold = FALSE]

hold_swap(s, perm) ==
  IF s.current = NoPiece \/ ~s.can_hold THEN s
  ELSE LET cur_kind == s.current.kind
           s1 == IF s.hold = None
                 THEN spawn_next([s EXCEPT !.hold = cur_kind], perm)
                 ELSE LET p == Piece(s.hold, spawn_x(s.hold), SPAWN_Y, 0)
                          s2 == [s EXCEPT !.current = p, !.hold = cur_kind]
                      IN IF collides(s2, p) THEN [s2 EXCEPT !.game_over = TRUE] ELSE s2
       IN [s1 EXCEPT !.can_hold = FALSE]

\* ------------------------------------------------------- hard drop, ghost
\* drop_from that counts the colliding row as well
RECURSIVE drop_from_overshoot(_, _, _)
drop_from_overshoot(s, p, dist) ==
  IF collides(s, Piece(p.kind, p.x, p.y + dist + 1, p.r)) THEN dist + 1
  ELSE drop_from_overshoot(s, p, dist + 1)

\* drop_from that tests every second row only
RECURSIVE drop_from_stride(_, _, _)
drop_from_stride(s, p, dist) ==
  IF collides(s, Piece(p.kind, p.x, p.y + dist + 1, p.r)) THEN dist
  ELSE IF collides(s, Piece(p.kind, p.x, p.y + dist + 3, p.r)) THEN dist + 2
  ELSE drop_from_stride(s, p, dist + 2)

\* the while loop of hard_drop_distance: dist grows until the piece moved
\* down by dist + 1 rows collides
RECURSIVE drop_from(_, _, _)
drop_from(s, p, dist) ==
  IF collides(s, Piece(p.kind, p.x, p.y + dist + 1, p.r)) THEN dist
  ELSE drop_from(s, p, dist + 1)

hard_drop_distance(s) ==
  IF s.current = NoPiece THEN 0 ELSE drop_from(s, s.current, 0)

\* ghost_position that builds the ghost in rotation 0
ghost_position_unrotated(s) ==
  LET d == hard_drop_distance(s)
      p == s.current
  IN Piece(p.kind, p.x, p.y + d, 0)

\* called by the host loop only while there is an active piece
ghost_position(s) ==
  LET d == hard_drop_distance(s)
      p == s.current
  IN Piece(p.kind, p.x, p.y + d, p.r)

\* ------------------------------------------------------------- save, load
\* a saved dict is a function from keys to values; the JSON null of the
\* 'current' entry is JsonNull, the JSON null of a cell or of 'hold' is None
JsonNull == [null |-> TRUE]

\* d.get(key, default)
Get(d, key, default) == IF key \in DOMAIN d THEN d[key] ELSE default

to_dict(s) ==
  [grid |-> [j \in DOMAIN s.grid |-> [i \in DOMAIN s.grid[j] |-> s.grid[j][i]]],
   bag |-> s.bag,
   next_queue |-> s.next_queue,
   hold |-> s.hold,
   can_hold |-> s.can_hold,
   current |-> IF s.current = NoPiece THEN JsonNull
               ELSE [kind |-> s.current.kind, x |-> s.current.x,
                     y |-> s.current.y, r |-> s.current.r],
   score |-> s.score,
   lines |-> s.lines,
   level |-> s.level,
   combo |-> s.combo,
   back_to_back |-> s.back_to_back,
   game_over |-> s.game_over]

\* from_dict that leaves fall_interval at the default of a fresh Game State
from_dict_default_gravity(d) ==
  LET s == GameState
      g == Get(d, "grid", s.grid)
      cur == Get(d, "current", JsonNull)
      has_cur == "null" \notin DOMAIN cur
      raised == has_cur /\ ~({"kind", "x", "y", "r"} \subseteq DOMAIN cur)
  IN [raised |-> raised,
      s |-> IF raised THEN s
            ELSE [s EXCEPT !.grid = [j \in DOMAIN g |-> [i \in DOMAIN g[j] |-> g[j][i]]],
                           !.bag = Get(d, "bag", <<>>),
                           !.next_queue = Get(d, "next_queue", <<>>),
                           !.hold = Get(d, "hold", None),
                           !.can_hold = Get(d, "can_hold", TRUE),
                           !.current = IF has_cur THEN Piece(cur.kind, cur.x, cur.y, cur.r)
                                       ELSE NoPiece,
                           !.score = Get(d, "score", 0),
                           !.lines = Get(d, "lines", 0),
                           !.level = Get(d, "level", 1),
                           !.combo = Get(d, "combo", 0 - 1),
                           !.back_to_back = Get(d, "back_to_back", FALSE),
                           !.game_over = Get(d, "game_over", FALSE)]]

\* raised tells that building the piece failed on a missing key (KeyError);
\* no other entry is examined before it is stored
from_dict(d) ==
  LET s == GameState
      g == Get(d, "grid", s.grid)
      cur == Get(d, "current", JsonNull)
      has_cur == "null" \notin DOMAIN cur
      raised == has_cur /\ ~({"kind", "x", "y", "r"} \subseteq DOMAIN cur)
      level_in == Get(d, "level", 1)
  IN [raised |-> raised,
      s |-> IF raised THEN s
            ELSE [s EXCEPT !.grid = [j \in DOMAIN g |-> [i \in DOMAIN g[j] |-> g[j][i]]],
                           !.bag = Get(d, "bag", <<>>),
                           !.next_queue = Get(d, "next_queue", <<>>),
                           !.hold = Get(d, "hold", None),
                           !.can_hold = Get(d, "can_hold", TRUE),
                           !.current = IF has_cur THEN Piece(cur.kind, cur.x, cur.y, cur.r)
                                       ELSE NoPiece,
                           !.score = Get(d, "score", 0),
                           !.lines = Get(d, "lines", 0),
                           !.level = level_in,
                           !.combo = Get(d, "combo", 0 - 1),
                           !.back_to_back = Get(d, "back_to_back", FALSE),
                           !.game_over = Get(d, "game_over", FALSE),
                           !.fall_interval = gravity_for_level(level_in)]]

\* load_game on an existing save file that holds d: the Game State of
\* from_dict, or None (ok false) when from_dict raised
load_game(d) ==
  LET r == from_dict(d)
  IN [ok |-> ~r.raised, s |-> r.s]


\* ------------------------------------------------------------------- state
VARIABLES grid, bag, next_queue, hold, can_hold, current, score, lines, level,
          combo, back_to_back, game_over, fall_interval,
          hard_drop_anim, hard_drop_target_y,
          phase,  \* where the host loop stands in its frame, "crashed" after
                  \* an uncaught exception
          drawn,  \* history: every kind moved from the bag into the next queue
          last,   \* history: the last call, its arguments and what it returned
          steps,  \* number of calls made since construction
          start_level, \* history: the level the state was constructed with
          holds,  \* history: hold_swap calls that changed the state since the
                  \* last lock_piece or spawn_next call
          responsive, \* the AdvancedResponsiveDesign object of the archived
                      \* user interface, NoDesign before it is constructed
          hard_drop_piece \* history: the piece that was active when the
                          \* hard-drop key started the pending animation

gameVars == <<grid, bag, next_queue, hold, can_hold, current, score, lines, level,
              combo, back_to_back, game_over, fall_interval,
              hard_drop_anim, hard_drop_target_y>>
vars == <<grid, bag, next_queue, hold, can_hold, current, score, lines, level,
          combo, back_to_back, game_over, fall_interval,
          hard_drop_anim, hard_drop_target_y, phase, drawn, last, steps,
          start_level, holds, responsive, hard_drop_piece>>

State ==
  [grid |-> grid, bag |-> bag, next_queue |-> next_queue, hold |-> hold,
   can_hold |-> can_hold, current |-> current, score |-> score, lines |-> lines,
   level |-> level, combo |-> combo, back_to_back |-> back_to_back,
   game_over |-> game_over, fall_interval |-> fall_interval,
   hard_drop_anim |-> hard_drop_anim, hard_drop_target_y |-> hard_drop_target_y,
   drawn |-> drawn]

Install(s) ==
  /\ grid' = s.grid
  /\ bag' = s.bag
  /\ next_queue' = s.next_queue
  /\ hold' = s.hold
  /\ can_hold' = s.can_hold
  /\ current' = s.current
  /\ score' = s.score
  /\ lines' = s.lines
  /\ level' = s.level
  /\ combo' = s.combo
  /\ back_to_back' = s.back_to_back
  /\ game_over' = s.game_over
  /\ fall_interval' = s.fall_interval
  /\ hard_drop_anim' = s.hard_drop_anim
  /\ hard_drop_target_y' = s.hard_drop_target_y
  /\ drawn' = s.drawn

Start(s) ==
  /\ grid = s.grid
  /\ bag = s.bag
  /\ next_queue = s.next_queue
  /\ hold = s.hold
  /\ can_hold = s.can_hold
  /\ current = s.current
  /\ score = s.score
  /\ lines = s.lines
  /\ level = s.level
  /\ combo = s.combo
  /\ back_to_back = s.back_to_back
  /\ game_over = s.game_over
  /\ fall_interval = s.fall_interval
  /\ hard_drop_anim = s.hard_drop_anim
  /\ hard_drop_target_y = s.hard_drop_target_y
  /\ drawn = s.drawn

\* the record kept in last: op is the function called, dx/dy/dr/n/tspin/piece
\* its arguments, ok/flag/cnt what it returned, kick the candidate it took;
\* for hold_swap, which returns nothing, ok tells whether it changed the state
Call(op) ==
  [op |-> op, dx |-> 0, dy |-> 0, dr |-> 0, n |-> 0, tspin |-> "none",
   piece |-> NoPiece, ok |-> FALSE, flag |-> "none", cnt |-> 0, kick |-> 0]

\* ----------------------------------------------------------------- inputs
\* (dx, dy) handed to try_move: the single steps of the host loop and two
\* longer shifts
MoveInputs == {<<0 - 1, 0>>, <<1, 0>>, <<0, 1>>, <<0 - 4, 0>>, <<0, 19>>}
\* dr handed to try_rotate: clockwise, counter-clockwise, 180 degrees
RotateInputs == {1, 0 - 1, 2}
TSpinFlags == {"none", "tspin"}

\* ---------------------------------------------------- engine specification
Init ==
  /\ \E perm \in Shuffles(NumShuffles) : Start(new_game(1, perm))
  /\ last = Call("new_game")
  /\ steps = 0
  /\ start_level = 1
  /\ holds = 0
  /\ phase = "events"
  /\ hard_drop_piece = NoPiece
  /\ responsive = NoDesign

TryMove(dx, dy) ==
  /\ steps < MaxSteps
  /\ LET r == try_move(State, dx, dy)
     IN /\ Install(r.s)
        /\ last' = [Call("try_move") EXCEPT !.dx = dx, !.dy = dy, !.ok = r.ret]
  /\ steps' = steps + 1
  /\ UNCHANGED <<start_level, hard_drop_piece, responsive, holds, phase>>

TryRotate(dr) ==
  /\ steps < MaxSteps
  /\ LET r == try_rotate(State, dr)
     IN /\ Install(r.s)
        /\ last' = [Call("try_rotate") EXCEPT !.dr = dr, !.ok = r.ok,
                                              !.flag = r.tspin, !.kick = r.kick]
  /\ steps' = steps + 1
  /\ UNCHANGED <<start_level, hard_drop_piece, responsive, holds, phase>>

HoldSwap(perm) ==
  /\ steps < MaxSteps
  /\ LET s == hold_swap(State, perm)
     IN /\ Install(s)
        /\ holds' = IF s # State THEN holds + 1 ELSE holds
        /\ last' = [Call("hold_swap") EXCEPT !.ok = (s # State)]
  /\ steps' = steps + 1
  /\ UNCHANGED <<start_level, hard_drop_piece, responsive, phase>>

LockPiece(perm) ==
  /\ steps < MaxSteps
  /\ LET r == lock_piece(State, perm)
     IN /\ Install(r.s)
        /\ last' = [Call("lock_piece") EXCEPT !.piece = current, !.cnt = r.ret]
        /\ phase' = IF r.raised THEN "crashed" ELSE phase
  /\ steps' = steps + 1
  /\ holds' = 0
  /\ UNCHANGED <<start_level, hard_drop_piece, responsive>>

Next ==
  \/ \E m \in MoveInputs : TryMove(m[1], m[2])
  \/ \E dr \in RotateInputs : TryRotate(dr)
  \/ \E perm \in Shuffles(NumShuffles) : HoldSwap(perm)
  \/ \E perm \in Shuffles(NumShuffles) : LockPiece(perm)

Spec == Init /\ [][Next]_vars


\* ------------------------------------------------------- bag specification
\* new_game followed by spawn requests: spawn_next as lock_piece and the host
\* loop call it, and hold_swap, which spawns while the hold slot is empty
InitBag ==
  /\ \E perm \in Shuffles(NumBagShuffles) : Start(new_game(1, perm))
  /\ last = Call("new_game")
  /\ steps = 0
  /\ start_level = 1
  /\ holds = 0
  /\ phase = "events"
  /\ hard_drop_piece = NoPiece
  /\ responsive = NoDesign

SpawnNext(perm) ==
  /\ steps < MaxSpawns
  /\ Install(spawn_next(State, perm))
  /\ last' = Call("spawn_next")
  /\ steps' = steps + 1
  /\ holds' = 0
  /\ UNCHANGED <<start_level, hard_drop_piece, responsive, phase>>

BagHoldSwap(perm) ==
  /\ steps < MaxSpawns
  /\ LET s == hold_swap(State, perm)
     IN /\ Install(s)
        /\ holds' = IF s # State THEN holds + 1 ELSE holds
        /\ last' = [Call("hold_swap") EXCEPT !.ok = (s # State)]
  /\ steps' = steps + 1
  /\ UNCHANGED <<start_level, hard_drop_piece, responsive, phase>>

NextBag ==
  \/ \E perm \in Shuffles(NumBagShuffles) : SpawnNext(perm)
  \/ \E perm \in Shuffles(NumBagShuffles) : BagHoldSwap(perm)

SpecBag == InitBag /\ [][NextBag]_vars

\* --------------------------------------------------- scoring specification
\* new_game(start_level) followed by score_lines calls
InitScore ==
  /\ \E lv \in 1..MaxStartLevel :
       /\ Start(new_game(lv, shuffle_outcome(0)))
       /\ start_level = lv
  /\ last = Call("new_game")
  /\ steps = 0
  /\ holds = 0
  /\ phase = "events"
  /\ hard_drop_piece = NoPiece
  /\ responsive = NoDesign

ScoreLines(n, tspin) ==
  /\ steps < MaxScoreCalls
  /\ Install(score_lines(State, n, tspin))
  /\ last' = [Call("score_lines") EXCEPT !.n = n, !.tspin = tspin]
  /\ steps' = steps + 1
  /\ UNCHANGED <<start_level, hard_drop_piece, responsive, holds, phase>>

NextScore == \E n \in 0..MaxLinesArg, tspin \in TSpinFlags : ScoreLines(n, tspin)

SpecScore == InitScore /\ [][NextScore]_vars

\* ------------------------------------------------------ pose specification
\* a Game State whose board and active piece are drawn from bounded families
\* (as a loaded state may hold them) and that is given one call: collides on
\* the active piece, try_move or try_rotate
PatternRow(n) ==
  CASE n = 1 -> [c \in 1..PLAY_COLS |-> "Z"]
    [] n = 2 -> [c \in 1..PLAY_COLS |-> IF c % 2 = 1 THEN "J" ELSE None]
    [] n = 3 -> [c \in 1..PLAY_COLS |-> IF c < PLAY_COLS THEN "I" ELSE None]
    [] n = 4 -> [c \in 1..PLAY_COLS |-> IF c > 1 THEN "S" ELSE None]
    [] n = 5 -> [c \in 1..PLAY_COLS |-> IF c > 2 THEN "L" ELSE None]
    [] n = 6 -> [c \in 1..PLAY_COLS |-> IF c > 3 THEN "O" ELSE None]
    [] OTHER -> EmptyRow

\* the boards whose rows in rows (1-based) carry one of the patterns 0..top
BoardsOver(rows, top) ==
  {[r \in 1..PLAY_ROWS |-> IF r \in rows THEN PatternRow(f[r]) ELSE EmptyRow] :
     f \in [rows -> 0..top]}

\* patterned rows: the top row and the bottom StackRows rows
StackBoards == BoardsOver({1} \cup ((PLAY_ROWS - StackRows + 1)..PLAY_ROWS), 2)

\* poses: every kind and rotation, across both walls, around the top rows and
\* around the floor
ProbeXs == ((0 - 3)..0) \cup {3} \cup ((PLAY_COLS - 4)..(PLAY_COLS - 2))
ProbeYs == ((0 - 3)..0) \cup ((PLAY_ROWS - 5)..(PLAY_ROWS - 1))
ProbePieces ==
  {p \in {Piece(k, x, y, r) : k \in KindSet, x \in ProbeXs, y \in ProbeYs, r \in 0..3} :
     p.r < Len(ROTATED[p.kind])}

InitPose ==
  /\ \E b \in StackBoards, p \in ProbePieces \cup {NoPiece} :
       Start([GameState EXCEPT !.grid = b, !.current = p])
  /\ last = Call("GameState")
  /\ steps = MaxSteps - 1
  /\ start_level = 1
  /\ holds = 0
  /\ phase = "events"
  /\ hard_drop_piece = NoPiece
  /\ responsive = NoDesign

Collides ==
  /\ steps < MaxSteps
  /\ current # NoPiece
  /\ last' = [Call("collides") EXCEPT !.piece = current, !.ok = collides(State, current)]
  /\ steps' = steps + 1
  /\ UNCHANGED <<gameVars, drawn, start_level, hard_drop_piece, responsive, holds, phase>>

NextPose ==
  \/ Collides
  \/ \E m \in MoveInputs : TryMove(m[1], m[2])
  \/ \E dr \in RotateInputs : TryRotate(dr)

SpecPose == InitPose /\ [][NextPose]_vars

\* ------------------------------------------------- line-clear specification
\* a Game State whose board is drawn from a bounded family, cleared with
\* clear_lines up to two times in a row
ClearBoards == BoardsOver({1, 2} \cup ((PLAY_ROWS - ClearRows + 1)..PLAY_ROWS), 3)

InitClear ==
  /\ \E b \in ClearBoards : Start([GameState EXCEPT !.grid = b])
  /\ last = Call("GameState")
  /\ steps = 0
  /\ start_level = 1
  /\ holds = 0
  /\ phase = "events"
  /\ hard_drop_piece = NoPiece
  /\ responsive = NoDesign

ClearLines ==
  /\ steps < 2
  /\ LET r == clear_lines(State)
     IN /\ Install(r.s)
        /\ last' = [Call("clear_lines") EXCEPT !.cnt = r.ret]
  /\ steps' = steps + 1
  /\ UNCHANGED <<start_level, hard_drop_piece, responsive, holds, phase>>

NextClear == ClearLines

SpecClear == InitClear /\ [][NextClear]_vars

\* ------------------------------------------------------ drop specification
\* a Game State whose board has patterned rows in mid-air (overhangs with
\* empty rows beneath) and on the floor, and whose active piece stands above,
\* between or below them; it is given one call of hard_drop_distance or
\* ghost_position
DropBoards == BoardsOver({7, 13, PLAY_ROWS}, 3)

DropPieces ==
  {p \in {Piece(k, x, y, r) : k \in KindSet, x \in {0 - 1, 3, 6},
                              y \in {0 - 2, 2, 5, 8, 15}, r \in 0..3} :
     p.r < Len(ROTATED[p.kind])}

InitDrop ==
  /\ \E b \in DropBoards, p \in DropPieces \cup {NoPiece} :
       Start([GameState EXCEPT !.grid = b, !.current = p])
  /\ last = Call("GameState")
  /\ steps = 0
  /\ start_level = 1
  /\ holds = 0
  /\ phase = "events"
  /\ hard_drop_piece = NoPiece
  /\ responsive = NoDesign

HardDropDistance ==
  /\ steps < 1
  /\ last' = [Call("hard_drop_distance") EXCEPT !.cnt = hard_drop_distance(State)]
  /\ steps' = steps + 1
  /\ UNCHANGED <<gameVars, drawn, start_level, hard_drop_piece, responsive, holds, phase>>

GhostPosition ==
  /\ steps < 1
  /\ current # NoPiece
  /\ last' = [Call("ghost_position") EXCEPT !.piece = ghost_position(State)]
  /\ steps' = steps + 1
  /\ UNCHANGED <<gameVars, drawn, start_level, hard_drop_piece, responsive, holds, phase>>

NextDrop == HardDropDistance \/ GhostPosition

SpecDrop == InitDrop /\ [][NextDrop]_vars

\* ------------------------------------------------------ save specification
\* play from new_game with line scoring, where the pause menu may save the
\* state and load it back
InitSave ==
  /\ \E lv \in 1..MaxStartLevel, perm \in Shuffles(NumShuffles) :
       /\ Start(new_game(lv, perm))
       /\ start_level = lv
  /\ last = Call("new_game")
  /\ steps = 0
  /\ holds = 0
  /\ phase = "events"
  /\ hard_drop_piece = NoPiece
  /\ responsive = NoDesign

\* save_game followed by load_game; the host loop replaces its state by the
\* loaded one when load_game returned one
SaveLoad ==
  /\ steps < MaxSteps
  /\ LET r == load_game(to_dict(State))
     IN /\ IF r.ok THEN Install([r.s EXCEPT !.drawn = drawn])
                    ELSE UNCHANGED <<gameVars, drawn>>
        /\ last' = [Call("load_game") EXCEPT !.ok = r.ok]
  /\ steps' = steps + 1
  /\ UNCHANGED <<start_level, hard_drop_piece, responsive, holds, phase>>

NextSave ==
  /\ steps < MaxSaveSteps
  /\ \/ \E m \in MoveInputs : TryMove(m[1], m[2])
     \/ \E dr \in RotateInputs : TryRotate(dr)
     \/ \E perm \in Shuffles(NumShuffles) : HoldSwap(perm)
     \/ \E perm \in Shuffles(NumShuffles) : LockPiece(perm)
     \/ \E n \in 0..MaxLinesArg, tspin \in TSpinFlags : ScoreLines(n, tspin)
     \/ SaveLoad

SpecSave == InitSave /\ [][NextSave]_vars

\* ------------------------------------------------------ load specification
\* the save file of a Game State as save_game writes it, or that file with
\* one entry altered: a board of 19 or 21 rows, a row of 9 or 11 cells, a
\* kind tag that is not in SHAPES (in the grid, the bag, the queue, the hold
\* slot or the active piece), or an active piece without its rotation
SavedFiles(s) ==
  LET d == to_dict(s)
  IN {d,
      [d EXCEPT !.grid = SubSeq(@, 1, Len(@) - 1)],
      [d EXCEPT !.grid = Append(@, EmptyRow)],
      [d EXCEPT !.grid[1] = SubSeq(@, 1, Len(@) - 1)],
      [d EXCEPT !.grid[1] = Append(@, None)],
      [d EXCEPT !.grid[1][1] = "X"],
      [d EXCEPT !.bag = Append(@, "X")],
      [d EXCEPT !.next_queue[1] = "X"],
      [d EXCEPT !.hold = "X"],
      [d EXCEPT !.current = IF "null" \in DOMAIN @ THEN @
                            ELSE [kind |-> "X", x |-> @.x, y |-> @.y, r |-> @.r]],
      [d EXCEPT !.current = IF "null" \in DOMAIN @ THEN @
                            ELSE [kind |-> @.kind, x |-> @.x, y |-> @.y]]}

InitLoad ==
  /\ \E perm \in Shuffles(NumShuffles) : Start(new_game(1, perm))
  /\ last = Call("new_game")
  /\ steps = 0
  /\ start_level = 1
  /\ holds = 0
  /\ phase = "events"
  /\ hard_drop_piece = NoPiece
  /\ responsive = NoDesign

\* the pause menu's load on the file d; the host loop replaces its state by
\* the loaded one when load_game returned one
LoadGame(d) ==
  /\ steps < 2
  /\ LET r == load_game(d)
     IN /\ IF r.ok THEN Install([r.s EXCEPT !.drawn = drawn])
                    ELSE UNCHANGED <<gameVars, drawn>>
        /\ last' = [Call("load_game") EXCEPT !.ok = r.ok]
  /\ steps' = steps + 1
  /\ UNCHANGED <<start_level, hard_drop_piece, responsive, holds, phase>>

NextLoad == \E d \in SavedFiles(State) : LoadGame(d)

SpecLoad == InitLoad /\ [][NextLoad]_vars

\* ------------------------------------------------------ host specification
\* the loop of run(): each frame handles the key events, then (unless the
\* game is over) the hard-drop animation, the auto shift and the gravity
\* ticks. The state it starts from is a new game, or a game loaded from the
\* pause menu: a new game's queue and bag with a stacked board and the
\* active piece somewhere above or inside the stack.
HostPerms == Shuffles(NumHostShuffles)

\* the board whose rows (1-based) in DOMAIN pats carry the given patterns
BoardOf(pats) ==
  [r \in 1..PLAY_ROWS |-> IF r \in DOMAIN pats THEN PatternRow(pats[r]) ELSE EmptyRow]

HostBoards ==
  {EmptyGrid,
   BoardOf(20 :> 3),
   BoardOf(19 :> 3 @@ 20 :> 3),
   BoardOf(18 :> 4 @@ 19 :> 6 @@ 20 :> 5)}

HostPieces ==
  {Piece("I", 7, 10, 1), Piece("I", 7, 16, 1), Piece("I", 3, 17, 0),
   Piece("T", 0 - 1, 17, 3), Piece("T", 3, 0, 0), Piece("O", 7, 15, 0)}

InitHost ==
  /\ \E perm \in HostPerms :
       LET s0 == new_game(1, perm)
       IN \E b \in HostBoards, p \in HostPieces \cup {s0.current} :
            LET s == [s0 EXCEPT !.grid = b, !.current = p]
            IN /\ ~collides(s, p)
               /\ Start(s)
  /\ last = Call("run")
  /\ steps = 0
  /\ start_level = 1
  /\ holds = 0
  /\ phase = "events"
  /\ hard_drop_piece = NoPiece
  /\ responsive = NoDesign

\* KEYDOWN of an arrow, rotation or hold key; skipped while the game is over
KeyMove(dx) ==
  /\ phase = "events"
  /\ ~game_over
  /\ steps < MaxHostSteps
  /\ TryMove(dx, 0)

KeyRotate(dr) ==
  /\ phase = "events"
  /\ ~game_over
  /\ steps < MaxHostSteps
  /\ TryRotate(dr)

KeyHold(perm) ==
  /\ phase = "events"
  /\ ~game_over
  /\ steps < MaxHostSteps
  /\ HoldSwap(perm)

\* KEYDOWN of the space key with an active piece and no animation pending:
\* a distance > 0 starts the animation towards the row reached now and
\* awards 2 points per row
KeyHardDrop ==
  /\ phase = "events"
  /\ ~game_over
  /\ steps < MaxHostSteps
  /\ current # NoPiece
  /\ ~hard_drop_anim
  /\ LET d == hard_drop_distance(State)
     IN /\ Install(IF d > 0
                   THEN [State EXCEPT !.hard_drop_anim = TRUE,
                                      !.hard_drop_target_y = current.y + d,
                                      !.score = @ + 2 * d]
                   ELSE State)
        /\ last' = [Call("hard_drop_key") EXCEPT !.piece = current, !.cnt = d]
        /\ hard_drop_piece' = IF d > 0 THEN current ELSE hard_drop_piece
  /\ steps' = steps + 1
  /\ UNCHANGED <<start_level, responsive, holds, phase>>

\* KEYDOWN of R: a new game at the level chosen in the start menu
KeyRestart(perm) ==
  /\ phase = "events"
  /\ steps < MaxHostSteps
  /\ Install(new_game(start_level, perm))
  /\ last' = Call("new_game")
  /\ steps' = steps + 1
  /\ holds' = 0
  /\ UNCHANGED <<start_level, hard_drop_piece, responsive, phase>>

\* the event queue is empty; while the game is over the frame ends here
EndEvents ==
  /\ phase = "events"
  /\ ~game_over
  /\ phase' = "anim"
  /\ UNCHANGED <<gameVars, drawn, last, steps, start_level, hard_drop_piece, responsive, holds>>

\* no animation is pending, or its duration has not elapsed yet
AnimPending ==
  /\ phase = "anim"
  /\ phase' = "shift"
  /\ UNCHANGED <<gameVars, drawn, last, steps, start_level, hard_drop_piece, responsive, holds>>

\* the animation's duration has elapsed: the active piece is put at the
\* target row and locked
DropComplete(perm) ==
  /\ phase = "anim"
  /\ hard_drop_anim
  /\ current # NoPiece
  /\ steps < MaxHostSteps
  /\ LET s1 == [State EXCEPT !.current.y = hard_drop_target_y]
         r == lock_piece(s1, perm)
     IN /\ Install(IF r.raised THEN r.s ELSE [r.s EXCEPT !.hard_drop_anim = FALSE])
        /\ phase' = IF r.raised THEN "crashed" ELSE "shift"
        /\ last' = [Call("drop_complete") EXCEPT !.piece = s1.current, !.cnt = r.ret,
                                                 !.ok = ~r.raised]
  /\ steps' = steps + 1
  /\ holds' = 0
  /\ UNCHANGED <<start_level, hard_drop_piece, responsive>>

\* one round of the auto-shift loop while an arrow key is held
AutoShift(dx) ==
  /\ phase = "shift"
  /\ steps < MaxHostSteps
  /\ TryMove(dx, 0)

EndShift ==
  /\ phase = "shift"
  /\ phase' = "gravity"
  /\ IF current = NoPiece
     THEN \E perm \in HostPerms : Install(spawn_next(State, perm))
     ELSE UNCHANGED <<gameVars, drawn>>
  /\ UNCHANGED <<last, steps, start_level, hard_drop_piece, responsive, holds>>

\* one round of the gravity loop: the piece moves down one row (one point
\* when the down key is held) or is locked, and a lock that cleared lines is
\* scored with the flag 'none'
GravityTick(down, perm) ==
  /\ phase = "gravity"
  /\ steps < MaxHostSteps
  /\ LET m == try_move(State, 0, 1)
         r == lock_piece(m.s, perm)
     IN /\ IF m.ret
           THEN /\ Install(IF down THEN [m.s EXCEPT !.score = @ + 1] ELSE m.s)
                /\ phase' = phase
                /\ holds' = holds
           ELSE /\ Install(IF r.ret > 0 THEN score_lines(r.s, r.ret, "none") ELSE r.s)
                /\ phase' = IF r.raised THEN "crashed" ELSE phase
                /\ holds' = 0
        /\ last' = [Call("gravity_tick") EXCEPT !.dy = 1, !.ok = m.ret, !.piece = current,
                                                !.cnt = IF m.ret THEN 0 ELSE r.ret]
  /\ steps' = steps + 1
  /\ UNCHANGED <<start_level, hard_drop_piece, responsive>>

EndFrame ==
  /\ phase = "gravity"
  /\ phase' = "events"
  /\ UNCHANGED <<gameVars, drawn, last, steps, start_level, hard_drop_piece, responsive, holds>>

NextHost ==
  \/ \E dx \in {0 - 1, 1} : KeyMove(dx)
  \/ \E dr \in RotateInputs : KeyRotate(dr)
  \/ \E perm \in HostPerms : KeyHold(perm)
  \/ KeyHardDrop
  \/ \E perm \in HostPerms : KeyRestart(perm)
  \/ EndEvents
  \/ AnimPending
  \/ \E perm \in HostPerms : DropComplete(perm)
  \/ \E dx \in {0 - 1, 1} : AutoShift(dx)
  \/ EndShift
  \/ \E down \in BOOLEAN, perm \in HostPerms : GravityTick(down, perm)
  \/ EndFrame

SpecHost == InitHost /\ [][NextHost]_vars


\* --------------------------------------------------- mid-game specification
\* a game in progress: the state of new_game with a board no row of which is
\* full and a fitting active piece, then MidGameCalls engine calls
MidGameCalls == 3

InitMidGame ==
  /\ \E perm \in HostPerms :
       LET s0 == new_game(1, perm)
       IN \E b \in HostBoards, p \in HostPieces \cup {s0.current} :
            LET s == [s0 EXCEPT !.grid = b, !.current = p]
            IN /\ ~collides(s, p)
               /\ Start(s)
  /\ last = Call("GameState")
  /\ steps = MaxSteps - MidGameCalls
  /\ start_level = 1
  /\ holds = 0
  /\ phase = "events"
  /\ hard_drop_piece = NoPiece
  /\ responsive = NoDesign

SpecMidGame == InitMidGame /\ [][Next]_vars

\* ------------------------------------------------- all-calls specification
\* new_game(start_level) followed by any MaxOverSteps calls of the engine: the calls of
\* Next, spawn_next, clear_lines, score_lines, and the two reconstructions of
\* the state, save followed by load and restart
MaxOverSteps == 3

NextOver ==
  /\ steps < MaxOverSteps
  /\ \/ \E m \in MoveInputs : TryMove(m[1], m[2])
     \/ \E dr \in RotateInputs : TryRotate(dr)
     \/ \E perm \in Shuffles(NumShuffles) : HoldSwap(perm)
     \/ \E perm \in Shuffles(NumShuffles) : LockPiece(perm)
     \/ \E perm \in Shuffles(NumShuffles) : SpawnNext(perm)
     \/ ClearLines
     \/ \E n \in 0..MaxLinesArg, tspin \in TSpinFlags : ScoreLines(n, tspin)
     \/ SaveLoad
     \/ \E perm \in Shuffles(NumShuffles) : KeyRestart(perm)

SpecOver == InitSave /\ [][NextOver]_vars

\* ------------------------------------------- responsive design (archive v4)
\* screen sizes handed to the constructor, number of calls per behaviour
Screens == {<<1920, 1080>>, <<800, 600>>}
MaxCacheSteps == 4
\* number of direct writes made in a row by test_cache_management
FillCount == 50

CacheTypes == {"fonts", "surfaces", "margins", "layouts", "adaptive_fonts"}

Clamp(lo, hi, v) == IF v < lo THEN lo ELSE IF v > hi THEN hi ELSE v
Dist(a, b) == IF a < b THEN b - a ELSE a - b

detect_device_class(total_pixels) ==
  IF total_pixels >= 8294400 THEN "ultra_high"
  ELSE IF total_pixels >= 2073600 THEN "high"
  ELSE IF total_pixels >= 1048576 THEN "medium"
  ELSE "low"

\* aspect ratios in thousandths, in the order the code tries them
AspectRatios ==
  << <<3556, "32:9">>, <<2333, "21:9">>, <<1778, "16:9">>, <<1600, "16:10">>,
     <<1500, "3:2">>, <<1333, "4:3">>, <<1250, "5:4">> >>

detect_aspect_type_enhanced(w, h) ==
  LET ratio == (1000 * w) \div h
      near == SelectSeq(AspectRatios, LAMBDA a : Dist(ratio, a[1]) < 100)
  IN IF Len(near) > 0 THEN near[1][2] ELSE "custom"

calculate_base_dimensions(device_class, aspect_type) ==
  LET wide == aspect_type = "21:9"
      square == aspect_type = "4:3"
  IN CASE device_class = "ultra_high" ->
            IF wide THEN <<2560, 1080>> ELSE IF square THEN <<1600, 1200>> ELSE <<1920, 1080>>
       [] device_class = "high" ->
            IF wide THEN <<1720, 720>> ELSE IF square THEN <<1280, 960>> ELSE <<1600, 900>>
       [] device_class = "medium" ->
            IF wide THEN <<1440, 600>> ELSE IF square THEN <<1024, 768>> ELSE <<1280, 720>>
       [] OTHER ->
            IF wide THEN <<1200, 500>> ELSE IF square THEN <<800, 600>> ELSE <<1024, 576>>

\* scale limits per device class, in thousandths
ScaleLimits(device_class) ==
  CASE device_class = "ultra_high" -> [min |-> 800, max |-> 3000]
    [] device_class = "high" -> [min |-> 700, max |-> 2500]
    [] device_class = "medium" -> [min |-> 600, max |-> 2000]
    [] OTHER -> [min |-> 500, max |-> 1800]

\* the font and ui factors in thousandths, at the default dpi of 96
calculate_intelligent_scaling(w, h, base, device_class) ==
  LET scale_x == (1000 * w) \div base[1]
      scale_y == (1000 * h) \div base[2]
      scale_avg == (scale_x + scale_y) \div 2
      scale_uniform == IF scale_x < scale_y THEN scale_x ELSE scale_y
      lim == ScaleLimits(device_class)
  IN [font |-> Clamp(lim.min, lim.max, (scale_avg * 14) \div 10),
      ui |-> Clamp(lim.min, lim.max, (scale_uniform * 13) \div 10)]

get_performance_profile(device_class) ==
  CASE device_class = "ultra_high" -> [fps_target |-> 120, max_cache_items |-> 200]
    [] device_class = "high" -> [fps_target |-> 60, max_cache_items |-> 150]
    [] device_class = "medium" -> [fps_target |-> 60, max_cache_items |-> 100]
    [] OTHER -> [fps_target |-> 45, max_cache_items |-> 50]

\* every cache is a dict: a sequence of <<key, value>> in insertion order
AdvancedResponsiveDesign(w, h) ==
  LET dc == detect_device_class(w * h)
      at == detect_aspect_type_enhanced(w, h)
      base == calculate_base_dimensions(dc, at)
  IN [constructed |-> TRUE,
      screen_width |-> w, screen_height |-> h,
      device_class |-> dc, aspect_type |-> at,
      scale_factors |-> calculate_intelligent_scaling(w, h, base, dc),
      unified_cache |-> [t \in CacheTypes |-> <<>>],
      performance_profile |-> get_performance_profile(dc)]

\* dict operations on a sequence of <<key, value>>
Has(d, k) == \E i \in 1..Len(d) : d[i][1] = k
Lookup(d, k) == d[CHOOSE i \in 1..Len(d) : d[i][1] = k][2]
Put(d, k, v) ==
  IF Has(d, k)
  THEN [i \in 1..Len(d) |-> IF d[i][1] = k THEN <<k, v>> ELSE d[i]]
  ELSE Append(d, <<k, v>>)

\* a cache above the profile's limit loses its oldest entries
manage_cache_size(o) ==
  LET max_items == o.performance_profile.max_cache_items
      trim(d) ==
        IF Len(d) > max_items
        THEN LET items_to_remove == Len(d) - max_items + 10
                 n == IF items_to_remove > Len(d) THEN Len(d) ELSE items_to_remove
             IN SubSeq(d, n + 1, Len(d))
        ELSE d
  IN [o EXCEPT !.unified_cache = [t \in CacheTypes |-> trim(o.unified_cache[t])]]

FontLimits(device_class) ==
  CASE device_class = "ultra_high" -> [min |-> 24, max |-> 200]
    [] device_class = "high" -> [min |-> 20, max |-> 150]
    [] device_class = "medium" -> [min |-> 16, max |-> 120]
    [] OTHER -> [min |-> 12, max |-> 80]

scale_font(o, base_font_size) ==
  IF Has(o.unified_cache.fonts, base_font_size)
  THEN [o |-> o, ret |-> Lookup(o.unified_cache.fonts, base_font_size)]
  ELSE LET lim == FontLimits(o.device_class)
           scaled == Clamp(lim.min, lim.max,
                           (base_font_size * o.scale_factors.font) \div 1000)
           cached == [o EXCEPT !.unified_cache.fonts = Put(@, base_font_size, scaled)]
       IN [o |-> manage_cache_size(cached), ret |-> scaled]

get_margin(o, base_margin) ==
  IF Has(o.unified_cache.margins, base_margin)
  THEN [o |-> o, ret |-> Lookup(o.unified_cache.margins, base_margin)]
  ELSE LET scaled == (base_margin * o.scale_factors.ui) \div 1000
           m == IF scaled < 5 THEN 5 ELSE scaled
           margin == IF o.aspect_type \in {"21:9", "32:9"} THEN (m * 12) \div 10
                     ELSE IF o.aspect_type \in {"4:3", "5:4"} THEN (m * 8) \div 10
                     ELSE m
           cached == [o EXCEPT !.unified_cache.margins = Put(@, base_margin, margin)]
       IN [o |-> manage_cache_size(cached), ret |-> margin]

\* clear_caches that empties the font cache only
clear_caches_fonts_only(o) == [o EXCEPT !.unified_cache.fonts = <<>>]

clear_caches(o) == [o EXCEPT !.unified_cache = [t \in CacheTypes |-> <<>>]]

\* total number of entries, as the test counts them
CacheSize(o) ==
  Len(o.unified_cache.fonts) + Len(o.unified_cache.surfaces)
    + Len(o.unified_cache.margins) + Len(o.unified_cache.layouts)
    + Len(o.unified_cache.adaptive_fonts)

\* ----------------------------------------------------- cache specification
\* the object of the test fixture, then cached calls, direct writes into the
\* caches and clear_caches in any order
FontSizes == {12, 60, 100}
Margins == {5, 20}
DirectKeys == {3, 60}

InitCache ==
  /\ \E sc \in Screens : responsive = AdvancedResponsiveDesign(sc[1], sc[2])
  /\ Start(GameState)
  /\ last = Call("AdvancedResponsiveDesign")
  /\ steps = 0
  /\ start_level = 1
  /\ holds = 0
  /\ phase = "events"
  /\ hard_drop_piece = NoPiece

CacheCall(op, o, n, ret) ==
  /\ steps < MaxCacheSteps
  /\ responsive' = o
  /\ last' = [Call(op) EXCEPT !.n = n, !.cnt = ret]
  /\ steps' = steps + 1
  /\ UNCHANGED <<gameVars, drawn, start_level, hard_drop_piece, holds, phase>>

ScaleFont(b) ==
  LET r == scale_font(responsive, b) IN CacheCall("scale_font", r.o, b, r.ret)

GetMargin(b) ==
  LET r == get_margin(responsive, b) IN CacheCall("get_margin", r.o, b, r.ret)

\* self.responsive._unified_cache[t][k] = k * 2
DirectWrite(t, k) ==
  CacheCall("write", [responsive EXCEPT !.unified_cache[t] = Put(@, k, k * 2)], k, k * 2)

\* the writes of keys 0..FillCount-1 in ascending order: a key already in
\* the dict keeps its place, the others are appended
fill_fonts(d) ==
  LET upd == [i \in 1..Len(d) |->
                IF d[i][1] \in 0..(FillCount - 1) THEN <<d[i][1], d[i][1] * 2>> ELSE d[i]]
      fresh == SelectSeq([i \in 1..FillCount |-> <<i - 1, (i - 1) * 2>>],
                         LAMBDA e : ~Has(d, e[1]))
  IN upd \o fresh

\* for i in range(50): self.responsive._unified_cache['fonts'][i] = i * 2
FillFonts ==
  CacheCall("fill", [responsive EXCEPT !.unified_cache.fonts = fill_fonts(@)],
            FillCount, 0)

\* cnt records the number of entries the call found
ClearCaches ==
  CacheCall("clear_caches", clear_caches(responsive), 0, CacheSize(responsive))

NextCache ==
  \/ \E b \in FontSizes : ScaleFont(b)
  \/ \E b \in Margins : GetMargin(b)
  \/ \E t \in CacheTypes, k \in DirectKeys : DirectWrite(t, k)
  \/ FillFonts
  \/ ClearCaches

SpecCache == InitCache /\ [][NextCache]_vars

\* ================================================================== claims
\* the occupied cells of a pose, read off the footprint
OccupiedCells(p) ==
  LET g == piece_grid(p)
  IN {<<p.x + ij[1], p.y + ij[2]>> : ij \in {q \in (0..3) \X (0..3) : g[q[2] + 1][q[1] + 1] # "."}}

\* a pose is blocked when one of its cells is beyond a wall, at or below the
\* floor, or on an occupied board cell of row >= 0
Blocked(g, p) ==
  \E c \in OccupiedCells(p) :
    \/ c[1] < 0
    \/ c[1] >= PLAY_COLS
    \/ c[2] >= PLAY_ROWS
    \/ (c[2] >= 0 /\ g[c[2] + 1][c[1] + 1] # None)

\* C1: the kinds moved from the bag into the next queue, cut into consecutive
\* chunks of 7 from the first draw, have every complete chunk hold each of the
\* 7 kinds exactly once
C1_BagFairness ==
  \A c \in 0..((Len(drawn) \div 7) - 1) :
    {drawn[7 * c + i] : i \in 1..7} = KindSet

\* two complete chunks were drawn, the second by a refill during play and in
\* another order than the first
C1_Witness ==
  /\ last.op = "spawn_next"
  /\ Len(drawn) >= 14
  /\ SubSeq(drawn, 1, 7) # SubSeq(drawn, 8, 14)

\* C2: collides is true iff some occupied cell of the piece is left of column
\* 0, right of column 9, at or below row 20, or on a non-empty cell of a row
\* >= 0; a cell above the board inside the walls never collides
C2_CollidesIff ==
  last.op = "collides" => (last.ok <=> Blocked(grid, last.piece))

\* a pose with cells above and inside the board, over a non-empty top row,
\* that does not collide
C2_Witness ==
  /\ last.op = "collides"
  /\ ~last.ok
  /\ grid[1] # EmptyRow
  /\ \E c \in OccupiedCells(last.piece) : c[2] < 0
  /\ \E c \in OccupiedCells(last.piece) : c[2] = 0

\* C3: while game_over is false an active piece is present and does not
\* collide with the board or the boundaries
C3_ActiveFits ==
  ~game_over => (current # NoPiece /\ ~Blocked(grid, current))

\* a lock wrote a piece into the board and installed the next one, which fits
C3_Witness ==
  /\ last.op = "lock_piece"
  /\ ~game_over
  /\ grid # EmptyGrid
  /\ current # NoPiece


Shift(p, dx, dy) == Piece(p.kind, p.x + dx, p.y + dy, p.r)

\* C4: try_move returns true exactly when the translated piece is not blocked
\* and then installs it, kind and rotation kept; otherwise it returns false and
\* leaves the game state unchanged; without an active piece it returns false
\* and changes nothing
C4_TryMove ==
  [][last'.op = "try_move" =>
       IF current = NoPiece
       THEN ~last'.ok /\ UNCHANGED <<gameVars, drawn>>
       ELSE LET p == Shift(current, last'.dx, last'.dy)
            IN /\ last'.ok <=> ~Blocked(grid, p)
               /\ last'.ok => current' = p
               /\ ~last'.ok => UNCHANGED <<gameVars, drawn>>]_vars

\* a move refused because of a locked cell: the piece fits where it is and the
\* translated pose lies inside the walls and above the floor
C4_Witness ==
  /\ last.op = "try_move"
  /\ ~last.ok
  /\ current # NoPiece
  /\ ~Blocked(grid, current)
  /\ \A c \in OccupiedCells(Shift(current, last.dx, last.dy)) :
       c[1] >= 0 /\ c[1] < PLAY_COLS /\ c[2] < PLAY_ROWS

\* the kick candidates of a rotation request and the poses they stand for
RotationCount(kind) == Len(ROTATED[kind])
TargetRotation(p, dr) == (p.r + dr) % RotationCount(p.kind)
Candidates(p, dr) ==
  KICKS(IF p.kind = "I" THEN "I" ELSE "JLTSZ", p.r % RotationCount(p.kind),
        TargetRotation(p, dr))

\* C5: a successful try_rotate installs the pose of the first candidate, in
\* table order, that is not blocked
C5_KickOrder ==
  [][(last'.op = "try_rotate" /\ last'.ok) =>
       /\ current # NoPiece
       /\ LET cands == Candidates(current, last'.dr)
              to_r == TargetRotation(current, last'.dr)
              pose(k) == Piece(current.kind, current.x + cands[k][1],
                               current.y + cands[k][2], to_r)
          IN \E k \in 1..Len(cands) :
               /\ current' = pose(k)
               /\ ~Blocked(grid, pose(k))
               /\ \A j \in 1..(k - 1) : Blocked(grid, pose(j))]_vars

\* a T piece rotated by its second candidate, the zero offset being blocked
C5_Witness ==
  /\ last.op = "try_rotate"
  /\ last.ok
  /\ last.kick = 2
  /\ current.kind = "T"

\* C6: when every kick candidate is blocked try_rotate returns (False, 'none')
\* and leaves the game state unchanged
C6_RotateFails ==
  [][(/\ last'.op = "try_rotate"
      /\ current # NoPiece
      /\ LET cands == Candidates(current, last'.dr)
             to_r == TargetRotation(current, last'.dr)
         IN \A k \in 1..Len(cands) :
              Blocked(grid, Piece(current.kind, current.x + cands[k][1],
                                  current.y + cands[k][2], to_r))) =>
       /\ ~last'.ok
       /\ last'.flag = "none"
       /\ UNCHANGED <<gameVars, drawn>>]_vars

\* a fitting piece whose rotation request had five candidates, all blocked
C6_Witness ==
  /\ last.op = "try_rotate"
  /\ ~last.ok
  /\ current # NoPiece
  /\ ~Blocked(grid, current)
  /\ Len(Candidates(current, last.dr)) = 5

\* C7: lock_piece on a piece with a cell above row 0 sets game_over, returns 0,
\* modifies no board cell, clears no line, keeps can_hold and the next queue
\* and spawns nothing
C7_LockAboveBoard ==
  [][(/\ last'.op = "lock_piece"
      /\ current # NoPiece
      /\ \E c \in OccupiedCells(current) : c[2] < 0) =>
       /\ game_over'
       /\ last'.cnt = 0
       /\ UNCHANGED <<grid, can_hold, next_queue, bag, current, drawn, score, lines>>]_vars

\* a lock refused for a piece that has cells above and inside the board, over
\* a board that already holds locked cells
C7_Witness ==
  /\ last.op = "lock_piece"
  /\ last.piece = current
  /\ game_over
  /\ grid # EmptyGrid
  /\ \E c \in OccupiedCells(current) : c[2] < 0
  /\ \E c \in OccupiedCells(current) : c[2] >= 0


\* a row is full when it has no empty cell
FullRow(row) == \A c \in 1..PLAY_COLS : row[c] # None
FullRowsOf(g) == {r \in 1..Len(g) : FullRow(g[r])}
FullBelow(g, r) == Cardinality({q \in FullRowsOf(g) : q > r})

\* C8: clear_lines returns the number k of full rows and leaves 20 rows: k
\* empty rows on top, then the non-full rows in their old order, each
\* unchanged; with k = 0 the board stays as it is, and a second clear_lines
\* in a row returns 0
C8_ClearLines ==
  [][last'.op = "clear_lines" =>
       LET k == Cardinality(FullRowsOf(grid))
       IN /\ last'.cnt = k
          /\ Len(grid') = PLAY_ROWS
          /\ \A r \in 1..k : grid'[r] = EmptyRow
          /\ \A r \in (1..PLAY_ROWS) \ FullRowsOf(grid) :
               grid'[r + FullBelow(grid, r)] = grid[r]
          /\ k = 0 => grid' = grid
          /\ last.op = "clear_lines" => (last'.cnt = 0 /\ grid' = grid)
          /\ UNCHANGED <<bag, next_queue, hold, can_hold, current, score, lines, level,
                         combo, back_to_back, game_over, fall_interval, drawn>>]_vars

\* a first clear_lines that removed two or more full rows: a non-full row of
\* the top moved down to sit right under the new empty rows, and the bottom
\* row holds cells
C8_Witness ==
  /\ last.op = "clear_lines"
  /\ steps = 1
  /\ last.cnt >= 2
  /\ grid[last.cnt + 1] # EmptyRow
  /\ grid[PLAY_ROWS] # EmptyRow

\* base points of the table, by T-spin flag and line count
BasePoints(n, tspin) ==
  IF tspin = "tspin"
  THEN (CASE n = 1 -> 400 [] n = 2 -> 700 [] OTHER -> 100)
  ELSE (CASE n = 1 -> 100 [] n = 2 -> 300 [] n = 3 -> 500 [] OTHER -> 800)
Difficult(n, tspin) == tspin = "tspin" \/ n >= 4

\* C9: from combo = -1 and back_to_back = false, score_lines with n >= 1 adds
\* exactly the table's points; afterwards combo = 0 and back_to_back is true
\* exactly for a T-spin or n >= 4
C9_ScoringTable ==
  [][(/\ last'.op = "score_lines"
      /\ last'.n >= 1
      /\ combo = 0 - 1
      /\ ~back_to_back) =>
       /\ score' = score + BasePoints(last'.n, last'.tspin)
       /\ combo' = 0
       /\ back_to_back' = Difficult(last'.n, last'.tspin)]_vars

\* a T-spin clear of 3 lines scored 100 from the fresh counters
C9_Witness ==
  /\ last.op = "score_lines"
  /\ steps = 1
  /\ last.n = 3
  /\ last.tspin = "tspin"
  /\ score = 100
  /\ combo = 0
  /\ back_to_back

\* C10: a clearing call adds floor(1.5 * (base + combo bonus)) when the clear
\* is difficult and back_to_back was already true, base + combo bonus
\* otherwise; back_to_back is afterwards true exactly for a difficult clear;
\* a Tetris followed by a T-spin single adds 800 and then 675
C10_BackToBack ==
  [][(last'.op = "score_lines" /\ last'.n >= 1) =>
       LET bonus == IF combo + 1 > 0 THEN 50 * (combo + 1) ELSE 0
           total == BasePoints(last'.n, last'.tspin) + bonus
           hard == Difficult(last'.n, last'.tspin)
       IN /\ score' - score = IF hard /\ back_to_back THEN total + (total \div 2) ELSE total
          /\ back_to_back' = hard
          /\ (/\ steps = 1 /\ last.op = "score_lines" /\ last.n = 4 /\ last.tspin = "none"
              /\ last'.n = 1 /\ last'.tspin = "tspin") =>
               (score = 800 /\ score' - score = 675)]_vars

\* a Tetris and then a T-spin single were scored from the fresh counters
C10_Witness ==
  /\ last.op = "score_lines"
  /\ steps = 2
  /\ last.n = 1
  /\ last.tspin = "tspin"
  /\ combo = 1
  /\ score = 1475

\* the bonus a combo counter carries
ComboBonus(c) == IF c > 0 THEN 50 * c ELSE 0

\* C11: a score_lines call with n >= 1 increases combo by exactly 1 and adds
\* the base points plus 50 * (new combo) when the new combo is > 0 (times 1.5,
\* rounded down, in a back-to-back difficult clear); a call with n = 0 resets
\* combo to -1, so the k-th consecutive clearing call carries 50 * (k - 1)
C11_Combo ==
  [][(last'.op = "score_lines") =>
       /\ last'.n = 0 => combo' = 0 - 1
       /\ last'.n >= 1 =>
            LET total == BasePoints(last'.n, last'.tspin) + ComboBonus(combo')
            IN /\ combo' = combo + 1
               /\ combo' >= 0
               /\ (steps = 0 \/ last.n = 0) => ComboBonus(combo') = 0
               /\ (steps = 1 /\ last.n >= 1) => ComboBonus(combo') = 50
               /\ score' - score =
                    IF Difficult(last'.n, last'.tspin) /\ back_to_back
                    THEN (3 * total) \div 2 ELSE total]_vars

\* three singles in a row from a new game: 100, 100 + 50, 100 + 100
C11_Witness ==
  /\ last.op = "score_lines"
  /\ steps = 3
  /\ last.n = 1
  /\ last.tspin = "none"
  /\ combo = 2
  /\ score = 450

\* C12: score_lines with n = 0 leaves score, lines and level unchanged, sets
\* combo to -1 and back_to_back to false, for either T-spin flag
C12_ZeroLines ==
  [][(last'.op = "score_lines" /\ last'.n = 0) =>
       /\ score' = score
       /\ combo' = 0 - 1
       /\ ~back_to_back'
       /\ lines' = lines
       /\ level' = level]_vars

Max(a, b) == IF a >= b THEN a ELSE b

\* C13: under score_lines calls from new_game(start_level), lines grows by the
\* line count of each call, level never decreases and equals
\* max(start_level, floor(lines / 10) + 1), and fall_interval equals
\* gravity_for_level(level)
C13_LevelProgression ==
  [][(last'.op = "score_lines") =>
       /\ lines' = lines + last'.n
       /\ level' >= level
       /\ level' = Max(start_level, (lines' \div 10) + 1)
       /\ fall_interval' = gravity_for_level(level')]_vars

\* from start level 1, twelve lines raised the level to 2 and the fall
\* interval with it
C13_Witness ==
  /\ last.op = "score_lines"
  /\ start_level = 1
  /\ lines = 12
  /\ level = 2
  /\ fall_interval = gravity_for_level(2)
  /\ fall_interval # gravity_for_level(1)

\* C14: once a hold_swap call has changed the state, every further hold_swap
\* call before the next lock_piece or spawn_next call leaves every field of
\* the game state unchanged
C14_HoldSingleUse ==
  [][(last'.op = "hold_swap" /\ holds >= 1) =>
       /\ ~last'.ok
       /\ UNCHANGED <<gameVars, drawn>>]_vars

\* a hold_swap call that changed nothing, made on a live piece after a
\* hold_swap that took effect and a move
C14_Witness ==
  /\ last.op = "hold_swap"
  /\ ~last.ok
  /\ holds = 1
  /\ current # NoPiece
  /\ current.x # spawn_x(current.kind)
  /\ ~game_over
  /\ hold # None

\* the pose a kind is spawned at
SpawnPose(kind) == [kind |-> kind, x |-> 3, y |-> 0 - 2, r |-> 0]

\* C15: hold_swap with hold allowed and an active piece of kind K stores K in
\* the hold slot; from an empty slot the active piece becomes the front of the
\* next queue at the spawn pose; from a slot holding H the active piece
\* becomes H at column 3, row -2, rotation 0, queue and bag stay as they
\* were, and the call sets game_over exactly when that pose collides
C15_HoldSwap ==
  [][(last'.op = "hold_swap" /\ can_hold /\ current # NoPiece) =>
       /\ hold' = current.kind
       /\ hold = None => current' = SpawnPose(Head(next_queue))
       /\ hold # None =>
            /\ current' = SpawnPose(hold)
            /\ UNCHANGED <<next_queue, bag>>
            /\ game_over' = (game_over \/ Blocked(grid, SpawnPose(hold)))]_vars

\* the first piece was held, the second locked, and the third swapped with
\* the held one
C15_Witness ==
  /\ last.op = "hold_swap"
  /\ last.ok
  /\ Len(drawn) = 7
  /\ current = SpawnPose(drawn[1])
  /\ hold = drawn[3]
  /\ ~can_hold

\* C16: a lock_piece call that spawns a piece leaves can_hold true; can_hold
\* is false from a hold_swap call that took effect until the next lock_piece
\* call; at most one hold_swap call takes effect between two lock_piece calls
C16_HoldAvailability ==
  [][/\ (last'.op = "lock_piece" /\ drawn' # drawn) => can_hold'
     /\ holds >= 1 => ~can_hold
     /\ holds' >= 1 => ~can_hold'
     /\ holds <= 1
     /\ holds' <= 1]_vars

\* a piece was held, the next one locked, and the lock gave the hold back
C16_Witness ==
  /\ last.op = "lock_piece"
  /\ hold # None
  /\ can_hold
  /\ holds = 0
  /\ Len(drawn) = 7
  /\ ~game_over

\* C17: in every state from new_game on the next queue holds at least 5
\* upcoming kinds
C17_QueueLookahead == Len(next_queue) >= 5

\* C18: a spawn takes the kind at the front of the next queue and makes it the
\* active piece at column 3, row -2, rotation 0; the rest of the queue keeps
\* its order and is replenished from the front of the bag
C18_SpawnPose ==
  [][(last'.op = "spawn_next" \/ (last'.op = "hold_swap" /\ last'.ok /\ hold = None)) =>
       LET pool == next_queue \o bag
       IN /\ current' = SpawnPose(Head(next_queue))
          /\ current'.x = 3 /\ current'.y = 0 - 2 /\ current'.r = 0
          /\ SubSeq(next_queue', 1, Len(next_queue) - 1) = Tail(next_queue)
          /\ \E perm \in Shuffles(NumBagShuffles) \cup {<<>>} :
               next_queue' \o bag' = Tail(pool) \o perm]_vars

\* an I piece was spawned from the queue after the bag had been refilled
C18_Witness ==
  /\ last.op = "spawn_next"
  /\ current = [kind |-> "I", x |-> 3, y |-> 0 - 2, r |-> 0]
  /\ Len(drawn) > 2 * Len(KINDS)
  /\ Len(next_queue) = 4

\* C19: a spawn whose pose collides with the board sets game_over and leaves
\* the game state without an active piece
C19_SpawnBlocked ==
  [][(/\ last'.op \in {"lock_piece", "hold_swap"}
      /\ drawn' # drawn
      /\ Blocked(grid', SpawnPose(Head(next_queue)))) =>
       (game_over' /\ current' = NoPiece)]_vars

\* C20: in a state with game_over true, try_move, try_rotate and hold_swap
\* leave every field of the game state unchanged
C20_GameOverTerminal ==
  [][(game_over /\ last'.op \in {"try_move", "try_rotate", "hold_swap"}) =>
       UNCHANGED <<gameVars, drawn>>]_vars

\* the rows dy by which a pose can be moved down without colliding
FreeDrops(g, p) == {dy \in 0..(PLAY_ROWS + 4) : ~Blocked(g, Shift(p, 0, dy))}

\* C21 as stated: for a non-colliding active piece hard_drop_distance returns
\* the maximum dy >= 0 such that the piece moved down by dy rows does not
\* collide
C21_MaxFreeDrop ==
  (last.op = "hard_drop_distance" /\ current # NoPiece /\ ~Blocked(grid, current)) =>
    /\ last.cnt \in FreeDrops(grid, current)
    /\ \A dy \in FreeDrops(grid, current) : dy <= last.cnt

\* C21 amended: for a non-colliding active piece hard_drop_distance returns
\* the dy >= 0 such that the piece moved down by any of 0..dy rows does not
\* collide and moved down by dy + 1 rows does: the drop ends at the first
\* collision
C21_FirstCollision ==
  (last.op = "hard_drop_distance" /\ current # NoPiece /\ ~Blocked(grid, current)) =>
    /\ last.cnt >= 0
    /\ \A dy \in 0..last.cnt : dy \in FreeDrops(grid, current)
    /\ (last.cnt + 1) \notin FreeDrops(grid, current)

\* the piece comes to rest on an overhang although it would fit further down
C21_Witness ==
  /\ last.op = "hard_drop_distance"
  /\ current # NoPiece
  /\ ~Blocked(grid, current)
  /\ last.cnt > 0
  /\ \E dy \in FreeDrops(grid, current) : dy > last.cnt

\* C22: ghost_position returns the active piece's kind, column and rotation
\* at row + hard_drop_distance and changes no field of the game state; for a
\* non-colliding active piece the ghost does not collide and the ghost one
\* row further down does
C22_GhostPureRead ==
  [][(last'.op = "ghost_position") =>
       LET ghost == last'.piece
       IN /\ UNCHANGED <<gameVars, drawn>>
          /\ ghost.kind = current.kind
          /\ ghost.x = current.x
          /\ ghost.r = current.r
          /\ ghost.y = current.y + hard_drop_distance(State)
          /\ ~Blocked(grid, current) =>
               /\ ~Blocked(grid, ghost)
               /\ Blocked(grid, Shift(ghost, 0, 1))]_vars

\* the ghost of a rotated piece lies strictly below it
C22_Witness ==
  /\ last.op = "ghost_position"
  /\ ~Blocked(grid, current)
  /\ current.r = 1
  /\ last.piece.y > current.y + 2
  /\ last.piece.y + 4 < PLAY_ROWS

\* C23: saving the state and loading it back gives a Game State (load_game
\* returns one) equal to the saved one on grid, bag, next queue, hold,
\* can_hold, active piece, score, lines, level, combo, back_to_back, game_over
\* and fall_interval, so that every later call acts on the same state
C23_RoundTrip ==
  [][(last'.op = "load_game") =>
       /\ last'.ok
       /\ UNCHANGED <<grid, bag, next_queue, hold, can_hold, current, score, lines,
                      level, combo, back_to_back, game_over, fall_interval>>]_vars

\* a state at level 2 with a moved piece, a held kind and a score was saved
\* and loaded
C23_Witness ==
  /\ last.op = "load_game"
  /\ last.ok
  /\ level = 2
  /\ fall_interval = gravity_for_level(2)
  /\ score > 0
  /\ hold # None
  /\ current # NoPiece

\* a Game State with a board of 20 rows by 10 columns and no kind tag outside
\* I, O, T, S, Z, J, L in the grid, bag, queue, hold slot or active piece
WellFormed ==
  /\ Len(grid) = 20
  /\ \A j \in DOMAIN grid :
       /\ Len(grid[j]) = 10
       /\ \A i \in DOMAIN grid[j] : grid[j][i] \in KindSet \cup {None}
  /\ \A i \in DOMAIN bag : bag[i] \in KindSet
  /\ \A i \in DOMAIN next_queue : next_queue[i] \in KindSet
  /\ hold \in KindSet \cup {None}
  /\ current.kind \in KindSet \cup {None}

\* C24: load_game returns no Game State for saved data whose board is not 20
\* by 10 or that holds an unknown kind tag: a Game State it returns is well
\* formed in both respects
C24_MalformedRejected ==
  (last.op = "load_game" /\ last.ok) => WellFormed

\* the cell of a T pose that touches its three other cells
Adjacent(a, b) ==
  \/ (a[1] = b[1] /\ (a[2] = b[2] + 1 \/ a[2] = b[2] - 1))
  \/ (a[2] = b[2] /\ (a[1] = b[1] + 1 \/ a[1] = b[1] - 1))
CenterCell(p) ==
  CHOOSE c \in OccupiedCells(p) : \A o \in OccupiedCells(p) \ {c} : Adjacent(c, o)
DiagonalCorners(c) ==
  {<<c[1] - 1, c[2] - 1>>, <<c[1] + 1, c[2] - 1>>,
   <<c[1] - 1, c[2] + 1>>, <<c[1] + 1, c[2] + 1>>}
\* a cell outside the board or holding a locked cell
OccupiedAt(g, c) ==
  \/ c[1] < 0 \/ c[1] >= PLAY_COLS \/ c[2] < 0 \/ c[2] >= PLAY_ROWS
  \/ g[c[2] + 1][c[1] + 1] # None

\* C25: a successful try_rotate returns 'tspin' exactly when the piece is a T
\* and at least 3 of the 4 cells diagonal to the T's centre cell, at the new
\* pose, are outside the board or hold a locked cell; it returns 'none' for
\* every other kind
C25_TSpinCorners ==
  [][(last'.op = "try_rotate" /\ last'.ok) =>
       (last'.flag = "tspin") =
         (/\ current'.kind = "T"
          /\ Cardinality({c \in DiagonalCorners(CenterCell(current')) :
                            OccupiedAt(grid, c)}) >= 3)]_vars

\* the host loop has locked the active piece: a gravity tick that could not
\* move it down, or the completion of a hard drop
HostLocked == last'.op = "drop_complete" \/ (last'.op = "gravity_tick" /\ ~last'.ok)

\* C26: a lock by the host loop that clears n >= 1 lines applies the line
\* scoring for n before the next piece is played, after a gravity tick as
\* after a hard drop: lines grows by n, the level follows, combo grows by 1
\* and the score by at least the smallest line award
C26_LockScores ==
  [][(HostLocked /\ last'.cnt >= 1) =>
       /\ lines' = lines + last'.cnt
       /\ level' = Max(level, (lines' \div 10) + 1)
       /\ combo' = combo + 1
       /\ score' >= score + 100]_vars

\* C27: a lock by the host loop that writes the piece and clears no line
\* leaves combo = -1 and back_to_back false (so that combo + 1 counts the
\* most recent consecutive clearing locks)
C27_ComboStreak ==
  [][(HostLocked /\ grid' # grid /\ last'.cnt = 0) =>
       (combo' = 0 - 1 /\ ~back_to_back')]_vars

\* C28: when the last call on the active T piece was a successful rotation
\* that returned 'tspin' and the host loop then locks the piece clearing
\* n >= 1 lines, the lock is scored from the T-spin table and counts as a
\* difficult clear
C28_TSpinScored ==
  [][(/\ last.op = "try_rotate" /\ last.ok /\ last.flag = "tspin"
      /\ current.kind = "T"
      /\ HostLocked
      /\ last'.cnt >= 1) =>
       LET total == BasePoints(last'.cnt, "tspin") + ComboBonus(combo + 1)
       IN /\ score' - score = IF back_to_back THEN (3 * total) \div 2 ELSE total
          /\ back_to_back']_vars

\* occupied frame positions <<column, row>> of a 4x4 footprint
FrameCells(g) == {c \in (0..3) \X (0..3) : g[c[2] + 1][c[1] + 1] # "."}

\* a quarter turn clockwise about the centre of the 4x4 frame
Clockwise(S) == {<<3 - c[2], c[1]>> : c \in S}

RECURSIVE ClockwiseTimes(_, _)
ClockwiseTimes(S, n) == IF n = 0 THEN S ELSE ClockwiseTimes(Clockwise(S), n - 1)

OrientationCount(kind) ==
  IF kind = "O" THEN 1 ELSE IF kind \in {"I", "S", "Z"} THEN 2 ELSE 4

\* C29: orientation r of every kind is the base footprint turned clockwise
\* r times in the 4x4 frame; O has 1 orientation, I, S and Z have 2, T, J
\* and L have 4; the orientations of a kind are pairwise distinct and each
\* has 4 occupied cells in the frame, and the footprint of the active piece
\* is the orientation its r selects
C29_ShapeCatalog ==
  /\ \A k \in KindSet :
       /\ Len(ROTATED[k]) = OrientationCount(k)
       /\ \A r \in 1..Len(ROTATED[k]) :
            /\ FrameCells(ROTATED[k][r]) = ClockwiseTimes(FrameCells(SHAPES(k)), r - 1)
            /\ Cardinality(FrameCells(ROTATED[k][r])) = 4
            /\ \A c \in (0..3) \X (0..3) : ROTATED[k][r][c[2] + 1][c[1] + 1] \in {".", k}
            /\ \A q \in 1..Len(ROTATED[k]) : q # r => ROTATED[k][q] # ROTATED[k][r]
  /\ current # NoPiece =>
       /\ FrameCells(piece_grid(current)) =
            ClockwiseTimes(FrameCells(SHAPES(current.kind)),
                           current.r % OrientationCount(current.kind))
       /\ {<<c[1] - current.x, c[2] - current.y>> :
              c \in {cells(current)[i] : i \in 1..Len(cells(current))}} =
            FrameCells(piece_grid(current))
       /\ Len(cells(current)) = 4

\* a successful rotation has brought a J piece to its fourth orientation
C29_Witness ==
  /\ last.op = "try_rotate" /\ last.ok
  /\ current.kind = "J" /\ current.r = 3
  /\ FrameCells(piece_grid(current)) # FrameCells(SHAPES("J"))

\* C30: right after clear_caches every cache of the unified cache (fonts,
\* surfaces, margins, layouts, adaptive_fonts) has zero entries, whatever
\* scale_font, get_margin and direct writes had put into them
C30_ClearCachesEmpties ==
  last.op = "clear_caches" =>
    /\ \A t \in CacheTypes : Len(responsive.unified_cache[t]) = 0
    /\ CacheSize(responsive) = 0

\* clear_caches found three or more cached entries and left none
C30_Witness ==
  /\ last.op = "clear_caches"
  /\ last.cnt >= 3
  /\ CacheSize(responsive) = 0

\* C31: whenever the host loop locks a piece, by a gravity tick or when the
\* hard-drop animation completes, the piece handed to lock_piece does not
\* collide with the grid it is written into and no exception is raised
C31_LockFits ==
  [][HostLocked =>
       /\ ~collides(State, last'.piece)
       /\ phase' # "crashed"]_vars

\* C32: the piece locked when the hard-drop animation completes is the piece
\* that was active when the hard-drop key was pressed: same kind, column and
\* rotation, at the row its ghost had at key press
C32_DropLocksRequested ==
  [][last'.op = "drop_complete" =>
       last'.piece = [hard_drop_piece EXCEPT !.y = hard_drop_target_y]]_vars

\* C33: in every state reached from new_game by spawns (and holds that
\* spawn), the bag holds at most 7 kinds, each a tetromino kind, and no kind
\* twice
C33_BagInvariant ==
  /\ Len(bag) <= 7
  /\ \A i \in 1..Len(bag) : bag[i] \in KindSet
  /\ \A i, j \in 1..Len(bag) : i # j => bag[i] # bag[j]

\* a spawn during play has just refilled the empty bag and drawn one kind
C33_Witness ==
  /\ last.op = "spawn_next"
  /\ Len(drawn) = 8
  /\ Len(bag) = 6

\* C34: try_rotate with delta +2 on an active piece tries the zero offset
\* only: it succeeds exactly when the pose at rotation (r + 2) mod count fits,
\* keeping column and row, and otherwise fails with the state unchanged; for
\* a kind with 1 or 2 orientations the call succeeds and the pose stays
C34_HalfTurn ==
  [][(last'.op = "try_rotate" /\ last'.dr = 2 /\ current # NoPiece) =>
       LET count == Len(ROTATED[current.kind])
           cand == [current EXCEPT !.r = (current.r + 2) % count]
       IN /\ last'.ok = ~collides(State, cand)
          /\ last'.ok => (State' = [State EXCEPT !.current = cand] /\ last'.kick = 1)
          /\ ~last'.ok => State' = State
          /\ count <= 2 => (last'.ok /\ current' = current)]_vars

\* C35: try_move and try_rotate, successful or not, leave grid, bag, next
\* queue, hold slot, can_hold, score, lines, level, combo, back_to_back and
\* game_over as they were; a successful try_move keeps kind and rotation, a
\* successful try_rotate keeps the kind
C35_MoveRotateFrame ==
  [][last'.op \in {"try_move", "try_rotate"} =>
       /\ UNCHANGED <<grid, bag, next_queue, hold, can_hold, score, lines, level,
                      combo, back_to_back, game_over>>
       /\ (last'.op = "try_move" /\ last'.ok) =>
            (current'.kind = current.kind /\ current'.r = current.r)
       /\ (last'.op = "try_rotate" /\ last'.ok) => current'.kind = current.kind]_vars

\* a move down has succeeded on a board with locked cells
C35_Witness ==
  /\ last.op = "try_move" /\ last.ok /\ last.dy > 0
  /\ grid # EmptyGrid
  /\ current # NoPiece

\* C36: the grid always has PLAY_ROWS rows of PLAY_COLS cells and no row is
\* completely filled, whatever try_move, try_rotate, hold_swap and lock_piece
\* calls were made
C36_NoFullRow ==
  /\ Len(grid) = PLAY_ROWS
  /\ \A r \in 1..PLAY_ROWS :
       /\ Len(grid[r]) = PLAY_COLS
       /\ \E c \in 1..PLAY_COLS : grid[r][c] = None

\* a lock has completed two rows at once and left locked cells behind
C36_Witness ==
  /\ last.op = "lock_piece"
  /\ last.cnt = 2
  /\ grid # EmptyGrid

\* the footprint mirrored left to right in the 4x4 frame
Mirror(S) == {<<3 - c[1], c[2]>> : c \in S}

\* the footprint moved dx columns
Slide(S, dx) == {<<c[1] + dx, c[2]>> : c \in S}

\* C37: the footprint at rotation 0 of the kind of the active piece differs
\* from the footprint of each of the 6 other kinds, and when that kind is J
\* or L, the footprint of the other of the two is its mirror image (up to
\* its column in the frame), not the same footprint
C37_DistinctShapes ==
  current # NoPiece =>
    LET mine == FrameCells(ROTATED[current.kind][1])
        twin == IF current.kind = "J" THEN "L" ELSE "J"
    IN /\ \A k \in KindSet \ {current.kind} : FrameCells(ROTATED[k][1]) # mine
       /\ current.kind \in {"J", "L"} =>
            \E dx \in (0 - 3)..3 :
              FrameCells(ROTATED[twin][1]) = Slide(Mirror(mine), dx)

\* C38: once game_over is true no call of try_move, try_rotate, hold_swap,
\* lock_piece, spawn_next, clear_lines or score_lines makes it false; it is
\* false again only in a state built by new_game or by load
C38_GameOverStable ==
  [][/\ (game_over /\ last'.op \notin {"new_game", "load_game"}) => game_over'
     /\ (game_over /\ ~game_over') => last'.op \in {"new_game", "load_game"}
     /\ last'.op = "new_game" => ~game_over']_vars

\* game over was set by a lock above the board, and a later spawn_next, whose
\* piece fits, has left it set
C38_Witness ==
  /\ game_over
  /\ last.op = "spawn_next"
  /\ steps >= 2
  /\ ~collides(State, current)

\* the lowest row a pose occupies
BottomRow(p) ==
  LET ys == {cells(p)[i][2] : i \in 1..Len(cells(p))}
  IN CHOOSE y \in ys : \A z \in ys : z <= y

\* C39: hard_drop_distance returns 0 when there is no active piece; with an
\* active piece the pose moved down by PLAY_ROWS - BottomRow rows has a cell
\* at row PLAY_ROWS and collides, so the loop, which tests the rows
\* 1, 2, .. in turn, ends after at most that many tests (one test when the
\* piece already reaches below the board)
C39_DropTerminates ==
  last.op = "hard_drop_distance" =>
    IF current = NoPiece THEN last.cnt = 0
    ELSE LET limit == Max(1, PLAY_ROWS - BottomRow(current))
         IN /\ BottomRow(Shift(current, 0, limit)) >= PLAY_ROWS
            /\ collides(State, Shift(current, 0, limit))
            /\ last.cnt >= 0
            /\ last.cnt + 1 <= limit

\* the loop ran down an empty column to the floor, 10 rows or more
C39_Witness ==
  /\ last.op = "hard_drop_distance"
  /\ current # NoPiece
  /\ last.cnt >= 10
  /\ last.cnt + 1 = PLAY_ROWS - BottomRow(current)

\* C40: new_game(start_level) returns an all-empty 20x10 board, score 0,
\* lines 0, level = start_level, combo = -1, back_to_back false, hold empty,
\* can_hold true, game_over false and an active piece at column 3, row -2,
\* rotation 0 whose kind, the next queue and the bag together are one
\* permutation of the 7 kinds
C40_InitialState ==
  last.op = "new_game" =>
    /\ Len(grid) = PLAY_ROWS
    /\ \A r \in 1..PLAY_ROWS :
         Len(grid[r]) = PLAY_COLS /\ \A c \in 1..PLAY_COLS : grid[r][c] = None
    /\ score = 0 /\ lines = 0 /\ level = start_level
    /\ combo = 0 - 1 /\ ~back_to_back
    /\ hold = None /\ can_hold /\ ~game_over
    /\ current # NoPiece
    /\ current.x = 3 /\ current.y = 0 - 2 /\ current.r = 0
    /\ LET all == <<current.kind>> \o next_queue \o bag
       IN /\ Len(all) = 7
          /\ {all[i] : i \in 1..7} = KindSet

\* the third call of a game started at level 2 was a restart
C40_Witness ==
  /\ last.op = "new_game"
  /\ steps = 3
  /\ start_level = 2
  /\ level = 2
  /\ current # NoPiece

====
